---------------------------- MODULE Spec2Model ----------------------------
(***************************************************************************)
(* Multi-frame spatial analysis (backend/app/services/multiframe_analyzer) *)
(* A MultiFrameAnalyzer fuses per-frame detection lists into validated     *)
(* detections.  Python lists are sequences and dicts are records.  Box     *)
(* coordinates are integers; every float the code computes from them (a    *)
(* quotient, a mean) and every confidence is an exact rational [n, d] in   *)
(* lowest terms.  A call's outcome is [exc, val]: the exception raised     *)
(* ("none" when the call returns) and the value returned.                  *)
(***************************************************************************)
EXTENDS Integers, Sequences, FiniteSets, TLC

VARIABLES
    iou_threshold,              \* self.iou_threshold
    confidence_boost,           \* self.confidence_boost
    min_frames_for_validation,  \* self.min_frames_for_validation
    frame_detections,           \* the caller's Frame Detection Set
    call,                       \* the method called last on the analyzer
    ret,                        \* outcome of that call
    matched,                    \* outcome of the match_detections_across_frames
                                \* call made last (directly or by that method)
    first_analysis,             \* outcome of the first analyze_frames call on
                                \* frame_detections
    bbox1, bbox2,               \* arguments of the last calculate_iou call
    iou,                        \* outcome of calculate_iou(bbox1, bbox2)
    iou_swapped,                \* outcome of calculate_iou(bbox2, bbox1)
    detection_list,             \* the flat detection list passed to
                                \* _cluster_detections or filter_low_confidence
    min_confidence,             \* threshold passed to filter_low_confidence
    again,                      \* outcome of the same call on its own result
    target,                     \* target_detection of a /validate request
    threads,                    \* the analyze_frames calls in progress, each
                                \* with its own locals
    request                     \* the HTTP request a route of
                                \* routes/multiframe is serving

vars == <<iou_threshold, confidence_boost, min_frames_for_validation,
          frame_detections, call, ret, matched, first_analysis,
          bbox1, bbox2, iou, iou_swapped,
          detection_list, min_confidence, again, target, threads, request>>

config_vars == <<iou_threshold, confidence_boost, min_frames_for_validation>>

analyzer_vars == <<iou_threshold, confidence_boost, min_frames_for_validation,
                   frame_detections, call, ret, matched, first_analysis>>

iou_vars == <<bbox1, bbox2, iou, iou_swapped>>

filter_vars == <<detection_list, min_confidence, again>>

request_vars == <<target, threads, request>>

(***************************************************************************)
(* Bounds of the model.                                                    *)
(***************************************************************************)
MaxCoord == 2        \* box coordinates range over 0..MaxCoord in SpecIou
MaxFrames == 3       \* frames in a Frame Detection Set
MaxDetections == 3   \* detections in a Frame Detection Set, all frames together
MaxPerFrame == 2     \* detections in one frame of a two-frame Frame Detection Set

(***************************************************************************)
(* Python floats as exact rationals.                                       *)
(***************************************************************************)
RECURSIVE Gcd(_, _)
Gcd(a, b) == IF b = 0 THEN a ELSE Gcd(b, a % b)

Abs(x) == IF x < 0 THEN -x ELSE x

\* the float n/d in lowest terms with a positive denominator, d # 0
Reduced(n, d, g) == [n |-> (IF d < 0 THEN -n ELSE n) \div g, d |-> Abs(d) \div g]
Rat(n, d) == Reduced(n, d, Gcd(Abs(n), Abs(d)))

Num(k) == [n |-> k, d |-> 1]
Zero == Num(0)
One == Num(1)

RAdd(a, b) == Rat(a.n * b.d + b.n * a.d, a.d * b.d)
RSub(a, b) == Rat(a.n * b.d - b.n * a.d, a.d * b.d)
RMul(a, b) == Rat(a.n * b.n, a.d * b.d)
RHalf(a) == Rat(a.n, 2 * a.d)
RLt(a, b) == a.n * b.d < b.n * a.d
RLeq(a, b) == a.n * b.d <= b.n * a.d
RMin(a, b) == IF RLt(b, a) THEN b ELSE a     \* Python min: first of equals

Max(a, b) == IF a < b THEN b ELSE a          \* Python max: first of equals
Min(a, b) == IF b < a THEN b ELSE a          \* Python min: first of equals

\* a call's outcome: the value returned, or the exception raised
Return(v) == [exc |-> "none", val |-> v]
Raise(e, v) == [exc |-> e, val |-> v]

\* a / b on numbers
TrueDiv(a, b) ==
    IF b = 0 THEN Raise("ZeroDivisionError", Zero) ELSE Return(Rat(a, b))

RECURSIVE Sum(_)
Sum(xs) == IF xs = <<>> THEN 0 ELSE xs[1] + Sum(Tail(xs))

RECURSIVE RSum(_)
RSum(xs) == IF xs = <<>> THEN Zero ELSE RAdd(xs[1], RSum(Tail(xs)))

\* np.mean of a non-empty list of integers, of floats
np_mean_int(xs) == Rat(Sum(xs), Len(xs))
np_mean(xs) == RMul(RSum(xs), Rat(1, Len(xs)))

(***************************************************************************)
(* Dicts.                                                                  *)
(***************************************************************************)
HasKey(dict, key) == key \in DOMAIN dict

\* {**dict, key: value}
DictWith(dict, key, value) ==
    [k \in DOMAIN dict \cup {key} |-> IF k = key THEN value ELSE dict[k]]

(***************************************************************************)
(* Geometry kernel.                                                        *)
(***************************************************************************)
\* the two accepted box shapes: [x1, y1, x2, y2] and {x1:, y1:, x2:, y2:}
ListBox(x1, y1, x2, y2) == [kind |-> "list", items |-> <<x1, y1, x2, y2>>]
DictBox(x1, y1, x2, y2) ==
    [kind |-> "dict", x1 |-> x1, y1 |-> y1, x2 |-> x2, y2 |-> y2]

\* isinstance(bbox, list) and the unpacking that follows it
unpack_bbox(bbox) ==
    IF bbox.kind = "list"
    THEN <<bbox.items[1], bbox.items[2], bbox.items[3], bbox.items[4]>>
    ELSE <<bbox.x1, bbox.y1, bbox.x2, bbox.y2>>

\* lines 67-76, the corners of both boxes and of the intersection given
iou_of_no_union_test(c1, c2, x1_i, y1_i, x2_i, y2_i) ==
    TrueDiv((x2_i - x1_i) * (y2_i - y1_i),
            (c1[3] - c1[1]) * (c1[4] - c1[2]) + (c2[3] - c2[1]) * (c2[4] - c2[2])
              - (x2_i - x1_i) * (y2_i - y1_i))

iou_of_second_box_area(c1, c2, x1_i, y1_i, x2_i, y2_i) ==
    IF (c2[3] - c2[1]) * (c2[4] - c2[2]) = 0 THEN Return(Zero)
    ELSE TrueDiv((x2_i - x1_i) * (y2_i - y1_i),
                 (c2[3] - c2[1]) * (c2[4] - c2[2]))

iou_of_overlap_counted_twice(c1, c2, x1_i, y1_i, x2_i, y2_i) ==
    LET intersection == (x2_i - x1_i) * (y2_i - y1_i)
        area1 == (c1[3] - c1[1]) * (c1[4] - c1[2])
        area2 == (c2[3] - c2[1]) * (c2[4] - c2[2])
        union == area1 + area2
    IN  IF union = 0 THEN Return(Zero) ELSE TrueDiv(intersection, union)

iou_of(c1, c2, x1_i, y1_i, x2_i, y2_i) ==
    LET intersection == (x2_i - x1_i) * (y2_i - y1_i)
        area1 == (c1[3] - c1[1]) * (c1[4] - c1[2])
        area2 == (c2[3] - c2[1]) * (c2[4] - c2[2])
        union == area1 + area2 - intersection
    IN  IF union = 0 THEN Return(Zero) ELSE TrueDiv(intersection, union)

\* lines 59-76, the corners of both boxes given
iou_of_corners_no_overlap_test(c1, c2) ==
    iou_of(c1, c2, Max(c1[1], c2[1]), Max(c1[2], c2[2]),
                   Min(c1[3], c2[3]), Min(c1[4], c2[4]))

iou_of_corners(c1, c2) ==
    IF Min(c1[3], c2[3]) < Max(c1[1], c2[1])
         \/ Min(c1[4], c2[4]) < Max(c1[2], c2[2])
    THEN Return(Zero)
    ELSE iou_of(c1, c2, Max(c1[1], c2[1]), Max(c1[2], c2[2]),
                        Min(c1[3], c2[3]), Min(c1[4], c2[4]))

calculate_iou(b1, b2) == iou_of_corners(unpack_bbox(b1), unpack_bbox(b2))

(***************************************************************************)
(* Spatial clusterer.  Positions in a list are 1-based here, so the code's *)
(* index i is position i + 1; frame_idx keeps the code's 0-based values.   *)
(***************************************************************************)
RECURSIVE scan_candidates(_, _, _, _, _)

\* lines 182-184 without the threshold test of line 182
admit_candidate_no_threshold(detections, i, j, cluster, used, r) ==
    IF r.exc # "none" THEN Raise(r.exc, <<>>)
    ELSE scan_candidates(detections, i, j + 1,
                         Append(cluster, detections[j]), used \cup {j})

\* lines 182-184 with the inner loop left after the first candidate admitted
admit_candidate_first_only(detections, i, j, cluster, used, r) ==
    IF r.exc # "none" THEN Raise(r.exc, <<>>)
    ELSE IF RLeq(iou_threshold, r.val)
    THEN Return([cluster |-> Append(cluster, detections[j]),
                 used |-> used \cup {j}])
    ELSE scan_candidates(detections, i, j + 1, cluster, used)

\* lines 182-184 with a candidate refused when its frame is in the cluster
admit_candidate_one_per_frame(detections, i, j, cluster, used, r) ==
    IF r.exc # "none" THEN Raise(r.exc, <<>>)
    ELSE IF /\ RLeq(iou_threshold, r.val)
            /\ \A k \in 1..Len(cluster) :
                  cluster[k].frame_idx # detections[j].frame_idx
    THEN scan_candidates(detections, i, j + 1,
                         Append(cluster, detections[j]), used \cup {j})
    ELSE scan_candidates(detections, i, j + 1, cluster, used)

\* lines 182-184 for candidate j, r being the outcome of calculate_iou
admit_candidate(detections, i, j, cluster, used, r) ==
    IF r.exc # "none" THEN Raise(r.exc, <<>>)
    ELSE IF RLeq(iou_threshold, r.val)
    THEN scan_candidates(detections, i, j + 1,
                         Append(cluster, detections[j]), used \cup {j})
    ELSE scan_candidates(detections, i, j + 1, cluster, used)

\* the inner loop without the test of line 176 for candidates already used
scan_candidates_ignoring_used(detections, i, j, cluster, used) ==
    IF j > Len(detections) THEN Return([cluster |-> cluster, used |-> used])
    ELSE IF j <= i
    THEN scan_candidates(detections, i, j + 1, cluster, used)
    ELSE IF detections[i].frame_idx # detections[j].frame_idx
    THEN IF ~HasKey(detections[i], "bbox") \/ ~HasKey(detections[j], "bbox")
         THEN Raise("KeyError", <<>>)
         ELSE admit_candidate(detections, i, j, cluster, used,
                  calculate_iou(detections[i].bbox, detections[j].bbox))
    ELSE scan_candidates(detections, i, j + 1, cluster, used)

\* the inner loop without the test of line 179 for the seed's own frame
scan_candidates_same_frame_too(detections, i, j, cluster, used) ==
    IF j > Len(detections) THEN Return([cluster |-> cluster, used |-> used])
    ELSE IF j \in used \/ j <= i
    THEN scan_candidates(detections, i, j + 1, cluster, used)
    ELSE IF ~HasKey(detections[i], "bbox") \/ ~HasKey(detections[j], "bbox")
    THEN Raise("KeyError", <<>>)
    ELSE admit_candidate(detections, i, j, cluster, used,
             calculate_iou(detections[i].bbox, detections[j].bbox))

\* the inner loop with the candidate compared to the member admitted last
scan_candidates_against_members(detections, i, j, cluster, used) ==
    IF j > Len(detections) THEN Return([cluster |-> cluster, used |-> used])
    ELSE IF j \in used \/ j <= i
    THEN scan_candidates(detections, i, j + 1, cluster, used)
    ELSE IF detections[i].frame_idx # detections[j].frame_idx
    THEN IF ~HasKey(detections[i], "bbox") \/ ~HasKey(detections[j], "bbox")
         THEN Raise("KeyError", <<>>)
         ELSE admit_candidate(detections, i, j, cluster, used,
                  calculate_iou(cluster[Len(cluster)].bbox, detections[j].bbox))
    ELSE scan_candidates(detections, i, j + 1, cluster, used)

\* the inner loop of _cluster_detections (lines 175-184), from position j on
scan_candidates(detections, i, j, cluster, used) ==
    IF j > Len(detections) THEN Return([cluster |-> cluster, used |-> used])
    ELSE IF j \in used \/ j <= i
    THEN scan_candidates(detections, i, j + 1, cluster, used)
    ELSE IF detections[i].frame_idx # detections[j].frame_idx
    THEN IF ~HasKey(detections[i], "bbox") \/ ~HasKey(detections[j], "bbox")
         THEN Raise("KeyError", <<>>)
         ELSE admit_candidate(detections, i, j, cluster, used,
                  calculate_iou(detections[i].bbox, detections[j].bbox))
    ELSE scan_candidates(detections, i, j + 1, cluster, used)

RECURSIVE cluster_from(_, _, _, _)

\* line 186 for seed i, s being the outcome of the inner loop
close_cluster(detections, i, clusters, s) ==
    IF s.exc # "none" THEN Raise(s.exc, <<>>)
    ELSE cluster_from(detections, i + 1, Append(clusters, s.val.cluster),
                      s.val.used)

\* the outer loop of _cluster_detections (lines 168-186), from position i on
cluster_from(detections, i, clusters, used) ==
    IF i > Len(detections) THEN Return(clusters)
    ELSE IF i \in used THEN cluster_from(detections, i + 1, clusters, used)
    ELSE close_cluster(detections, i, clusters,
             scan_candidates(detections, i, 1, <<detections[i]>>,
                             used \cup {i}))

_cluster_detections(detections) ==
    IF detections = <<>> THEN Return(<<>>)
    ELSE cluster_from(detections, 1, <<>>, {})

(***************************************************************************)
(* Cluster aggregator.                                                     *)
(***************************************************************************)
\* lines 207-212 with np.sum in place of np.mean
avg_bbox_of_sums(bbox_coords) ==
    <<Num(Sum([k \in 1..Len(bbox_coords) |-> bbox_coords[k][1]])),
      Num(Sum([k \in 1..Len(bbox_coords) |-> bbox_coords[k][2]])),
      Num(Sum([k \in 1..Len(bbox_coords) |-> bbox_coords[k][3]])),
      Num(Sum([k \in 1..Len(bbox_coords) |-> bbox_coords[k][4]]))>>

\* lines 207-212 with the seed's box taken for the mean
avg_bbox_of_seed(bbox_coords) ==
    <<Num(bbox_coords[1][1]), Num(bbox_coords[1][2]),
      Num(bbox_coords[1][3]), Num(bbox_coords[1][4])>>

\* lines 207-212
avg_bbox_of(bbox_coords) ==
    <<np_mean_int([k \in 1..Len(bbox_coords) |-> bbox_coords[k][1]]),
      np_mean_int([k \in 1..Len(bbox_coords) |-> bbox_coords[k][2]]),
      np_mean_int([k \in 1..Len(bbox_coords) |-> bbox_coords[k][3]]),
      np_mean_int([k \in 1..Len(bbox_coords) |-> bbox_coords[k][4]])>>

\* line 222
boosted_confidence_no_clamp(avg_confidence) ==
    RAdd(avg_confidence, confidence_boost)

boosted_confidence(avg_confidence) ==
    RMin(One, RAdd(avg_confidence, confidence_boost))

\* lines 214-241 with num_frames counting the distinct frames of the cluster
aggregated_distinct_frames(cluster, avg_bbox, avg_confidence) ==
    [class_id |-> IF HasKey(cluster[1], "class_id")
                  THEN cluster[1].class_id ELSE 0,
     class_name |-> cluster[1].class_name,
     confidence |-> boosted_confidence(avg_confidence),
     original_confidence |-> avg_confidence,
     bbox |-> avg_bbox,
     bbox_center |-> <<RHalf(RAdd(avg_bbox[1], avg_bbox[3])),
                       RHalf(RAdd(avg_bbox[2], avg_bbox[4]))>>,
     bbox_area |-> RMul(RSub(avg_bbox[3], avg_bbox[1]),
                        RSub(avg_bbox[4], avg_bbox[2])),
     validation |->
         [validated |-> TRUE,
          num_frames |->
              Cardinality({cluster[k].frame_idx : k \in 1..Len(cluster)}),
          frame_indices |-> [k \in 1..Len(cluster) |-> cluster[k].frame_idx],
          confidence_boost |-> confidence_boost,
          individual_confidences |->
              [k \in 1..Len(cluster) |-> cluster[k].confidence]]]

\* lines 214-241
aggregated(cluster, avg_bbox, avg_confidence) ==
    [class_id |-> IF HasKey(cluster[1], "class_id")
                  THEN cluster[1].class_id ELSE 0,
     class_name |-> cluster[1].class_name,
     confidence |-> boosted_confidence(avg_confidence),
     original_confidence |-> avg_confidence,
     bbox |-> avg_bbox,
     bbox_center |-> <<RHalf(RAdd(avg_bbox[1], avg_bbox[3])),
                       RHalf(RAdd(avg_bbox[2], avg_bbox[4]))>>,
     bbox_area |-> RMul(RSub(avg_bbox[3], avg_bbox[1]),
                        RSub(avg_bbox[4], avg_bbox[2])),
     validation |->
         [validated |-> TRUE,
          num_frames |-> Len(cluster),
          frame_indices |-> [k \in 1..Len(cluster) |-> cluster[k].frame_idx],
          confidence_boost |-> confidence_boost,
          individual_confidences |->
              [k \in 1..Len(cluster) |-> cluster[k].confidence]]]

_aggregate_cluster(cluster) ==
    IF \E k \in 1..Len(cluster) :
          ~HasKey(cluster[k], "bbox") \/ ~HasKey(cluster[k], "confidence")
    THEN Raise("KeyError", <<>>)
    ELSE Return(aggregated(
            cluster,
            avg_bbox_of([k \in 1..Len(cluster) |-> unpack_bbox(cluster[k].bbox)]),
            np_mean([k \in 1..Len(cluster) |-> cluster[k].confidence])))

(***************************************************************************)
(* Class partitioner and match_detections_across_frames.                   *)
(***************************************************************************)
\* line 124: not enough frames to validate anything
degraded_mode(fd) == fd = <<>> \/ Len(fd) < min_frames_for_validation

\* line 126
first_frame_or_empty_unguarded(fd) ==
    IF fd = <<>> THEN Raise("IndexError", <<>>) ELSE Return(fd[1])

first_frame_or_empty_tagged(fd) ==
    IF fd # <<>>
    THEN Return([k \in 1..Len(fd[1]) |-> DictWith(fd[1][k], "frame_idx", 0)])
    ELSE Return(<<>>)

first_frame_or_empty(fd) == IF fd # <<>> THEN Return(fd[1]) ELSE Return(<<>>)

\* line 137 as det['frame_idx'] = frame_idx; det_with_frame = det
tag_detection_in_place(det, frame_idx) ==
    [det |-> DictWith(det, "frame_idx", frame_idx),
     det_with_frame |-> DictWith(det, "frame_idx", frame_idx)]

\* line 137: the caller's record after the statement, and the new record
tag_detection(det, frame_idx) ==
    [det |-> det, det_with_frame |-> DictWith(det, "frame_idx", frame_idx)]

\* lines 130-138: every detection with its frame index, in iteration order
RECURSIVE with_frame_idx(_, _)
with_frame_idx(fd, f) ==
    IF f > Len(fd) THEN <<>>
    ELSE [k \in 1..Len(fd[f]) |->
             tag_detection(fd[f][k], f - 1).det_with_frame]
         \o with_frame_idx(fd, f + 1)

\* the caller's Frame Detection Set after the loop of lines 130-138
frames_after_partition(fd) ==
    [f \in 1..Len(fd) |->
        [k \in 1..Len(fd[f]) |-> tag_detection(fd[f][k], f - 1).det]]

\* the caller's Frame Detection Set after match_detections_across_frames;
\* nothing else in the methods that call it assigns to the input
frame_detections_after(fd) ==
    IF degraded_mode(fd) THEN fd ELSE frames_after_partition(fd)

\* the keys of class_groups in insertion order
RECURSIVE class_names_in_order(_)
class_names_in_order(dets) ==
    IF dets = <<>> THEN <<>>
    ELSE <<dets[1].class_name>>
         \o SelectSeq(class_names_in_order(Tail(dets)),
                      LAMBDA c : c # dets[1].class_name)

\* class_groups.items() after the loop of lines 130-138, all being the
\* detections in iteration order and keys the class names in insertion order
class_items(all, keys) ==
    [k \in 1..Len(keys) |->
        [class_name |-> keys[k],
         detections |-> SelectSeq(all, LAMBDA d : d.class_name = keys[k])]]

class_groups_of(all) == class_items(all, class_names_in_order(all))

\* what the loop of lines 130-138 leaves if class_groups outlived the call
\* made before on the caller's Frame Detection Set: its detections come first
class_groups_kept_on_self(fd) ==
    class_groups_of(
        with_frame_idx(IF call = "__init__" THEN <<>> ELSE frame_detections, 1)
        \o with_frame_idx(fd, 1))

class_groups(fd) == class_groups_of(with_frame_idx(fd, 1))

\* the lists of two steps run one after the other, or the first exception
Extend(first, rest) ==
    IF first.exc # "none" THEN Raise(first.exc, <<>>)
    ELSE IF rest.exc # "none" THEN Raise(rest.exc, <<>>)
    ELSE Return(first.val \o rest.val)

\* line 148: validated_detections.append(validated_det)
Appended(validated_det) ==
    IF validated_det.exc # "none" THEN Raise(validated_det.exc, <<>>)
    ELSE Return(<<validated_det.val>>)

\* lines 145-148 with a cluster needing more than the minimum
RECURSIVE aggregate_qualifying_strict(_, _)
aggregate_qualifying_strict(clusters, k) ==
    IF k > Len(clusters) THEN Return(<<>>)
    ELSE IF Len(clusters[k]) > min_frames_for_validation
    THEN Extend(Appended(_aggregate_cluster(clusters[k])),
                aggregate_qualifying_strict(clusters, k + 1))
    ELSE aggregate_qualifying_strict(clusters, k + 1)

\* lines 145-148: the clusters of one class that qualify, aggregated
RECURSIVE aggregate_qualifying(_, _)
aggregate_qualifying(clusters, k) ==
    IF k > Len(clusters) THEN Return(<<>>)
    ELSE IF Len(clusters[k]) >= min_frames_for_validation
    THEN Extend(Appended(_aggregate_cluster(clusters[k])),
                aggregate_qualifying(clusters, k + 1))
    ELSE aggregate_qualifying(clusters, k + 1)

\* lines 143-148 for one class, clusters being the outcome of line 143
validate_clusters(clusters) ==
    IF clusters.exc # "none" THEN Raise(clusters.exc, <<>>)
    ELSE aggregate_qualifying(clusters.val, 1)

\* lines 142-148: the loop over class_groups.items(), from item k on
RECURSIVE validate_groups(_, _)
validate_groups(groups, k) ==
    IF k > Len(groups) THEN Return(<<>>)
    ELSE Extend(validate_clusters(_cluster_detections(groups[k].detections)),
                validate_groups(groups, k + 1))

match_detections_across_frames(fd) ==
    IF degraded_mode(fd) THEN first_frame_or_empty(fd)
    ELSE IF \E f \in 1..Len(fd) : \E k \in 1..Len(fd[f]) :
               ~HasKey(fd[f][k], "class_name")
    THEN Raise("KeyError", <<>>)
    ELSE validate_groups(class_groups(fd), 1)

(***************************************************************************)
(* Statistics composer and filters.                                        *)
(***************************************************************************)
\* line 260 with the first frame counted alone
total_detections_first_frame(fd) == IF fd = <<>> THEN 0 ELSE Len(fd[1])

\* line 260
total_detections(fd) == Sum([f \in 1..Len(fd) |-> Len(fd[f])])

\* lines 263-266
reduction_rate_unguarded(before, after) == TrueDiv(before - after, before)

reduction_rate(before, after) ==
    IF before > 0 THEN TrueDiv(before - after, before) ELSE Return(Zero)

\* lines 268-271 with the count of a class set to 1, not incremented
class_counts_not_incremented(dets) ==
    [c \in {dets[k].class_name : k \in 1..Len(dets)} |-> 1]

\* lines 268-271
class_counts(dets) ==
    [c \in {dets[k].class_name : k \in 1..Len(dets)} |->
        Cardinality({k \in 1..Len(dets) : dets[k].class_name = c})]

\* an Optional argument: None, or a value
None == [is_none |-> TRUE, value |-> <<>>]
Some(v) == [is_none |-> FALSE, value |-> v]

\* lines 273-284, rate being the outcome of lines 263-266
result_bundle(fd, frame_metadata, validated_detections, rate) ==
    IF rate.exc # "none" THEN Raise(rate.exc, <<>>)
    ELSE IF \E k \in 1..Len(validated_detections) :
               \/ ~HasKey(validated_detections[k], "class_name")
               \/ ~HasKey(validated_detections[k], "confidence")
    THEN Raise("KeyError", <<>>)
    ELSE Return(
      [validated_detections |-> validated_detections,
       statistics |->
         [num_frames |-> Len(fd),
          total_detections_before |-> total_detections(fd),
          total_detections_after |-> Len(validated_detections),
          false_positive_reduction_rate |-> rate.val,
          detections_by_class |-> class_counts(validated_detections),
          avg_confidence |->
             IF validated_detections # <<>>
             THEN np_mean([k \in 1..Len(validated_detections) |->
                              validated_detections[k].confidence])
             ELSE Zero],
       frame_metadata |->
          IF frame_metadata.is_none \/ frame_metadata.value = <<>>
          THEN <<>> ELSE frame_metadata.value])

\* lines 260-284, m being the outcome of line 258
analysis_of(fd, frame_metadata, m) ==
    IF m.exc # "none" THEN Raise(m.exc, <<>>)
    ELSE result_bundle(fd, frame_metadata, m.val,
                       reduction_rate(total_detections(fd), Len(m.val)))

analyze_frames(fd, frame_metadata) ==
    analysis_of(fd, frame_metadata, match_detections_across_frames(fd))

\* det.get('validation', {}).get('num_frames', 0)
validation_num_frames(det) ==
    IF HasKey(det, "validation")
    THEN IF HasKey(det.validation, "num_frames")
         THEN det.validation.num_frames ELSE 0
    ELSE 0

\* lines 319-325, validated being the outcome of line 317
occlusion_handled_more_than_two(validated) ==
    IF validated.exc # "none" THEN Raise(validated.exc, <<>>)
    ELSE Return(SelectSeq(validated.val,
                          LAMBDA det : validation_num_frames(det) > 2))

occlusion_handled(validated) ==
    IF validated.exc # "none" THEN Raise(validated.exc, <<>>)
    ELSE Return(SelectSeq(validated.val,
                          LAMBDA det : validation_num_frames(det) >= 2))

handle_partial_occlusions(fd) ==
    occlusion_handled(match_detections_across_frames(fd))

\* line 301 with a detection at the threshold dropped
filter_outcome_strict(dets, threshold) ==
    IF \E k \in 1..Len(dets) : ~HasKey(dets[k], "confidence")
    THEN [detections |-> dets, result |-> Raise("KeyError", <<>>)]
    ELSE [detections |-> dets,
          result |-> Return(SelectSeq(dets,
                        LAMBDA d : RLt(threshold, d.confidence)))]

\* line 301: the list passed in as the call leaves it, and what is returned
filter_outcome(dets, threshold) ==
    IF \E k \in 1..Len(dets) : ~HasKey(dets[k], "confidence")
    THEN [detections |-> dets, result |-> Raise("KeyError", <<>>)]
    ELSE [detections |-> dets,
          result |-> Return(SelectSeq(dets,
                        LAMBDA d : RLeq(threshold, d.confidence)))]

filter_low_confidence(dets, threshold) == filter_outcome(dets, threshold).result

(***************************************************************************)
(* The analyzer as constructed, and the inputs of the model.               *)
(***************************************************************************)
NotCalled == [exc |-> "not_called", val |-> <<>>]
IouNotCalled == [exc |-> "not_called", val |-> Zero]

Pothole(conf, bbox) ==
    [class_id |-> 0, class_name |-> "pothole", confidence |-> conf, bbox |-> bbox]
Graffiti(conf, bbox) ==
    [class_id |-> 1, class_name |-> "graffiti", confidence |-> conf, bbox |-> bbox]

\* the detections the detector produces in this model: A and B overlap with
\* IoU 81/119, D is disjoint from both, G is of another class
DetA == Pothole(Rat(9, 10), ListBox(0, 0, 10, 10))
DetB == Pothole(One, DictBox(1, 1, 11, 11))
DetD == Pothole(Rat(1, 2), ListBox(100, 100, 110, 110))
DetG == Graffiti(One, DictBox(0, 0, 10, 10))

DetectionPool == {DetA, DetB, DetD, DetG}

\* the flat list all split over nframes frames: detection k goes to frame
\* at[k], at being non-decreasing
SplitFrames(all, at, nframes) ==
    [f \in 1..nframes |->
        SubSeq(all, 1 + Cardinality({k \in 1..Len(all) : at[k] < f}),
                    Cardinality({k \in 1..Len(all) : at[k] <= f}))]

\* every Frame Detection Set of at most MaxFrames frames and MaxDetections
\* detections, the detections taken from pool
FrameSetsOver(pool) ==
    UNION {
      UNION {
        {SplitFrames(all, at, nframes) :
            all \in [1..t -> pool],
            at \in {g \in [1..t -> 1..nframes] :
                       \A k \in 1..t : k < t => g[k] <= g[k + 1]}}
        : t \in IF nframes = 0 THEN {0} ELSE 0..MaxDetections}
      : nframes \in 0..MaxFrames}

\* the Frame Detection Set of the calls made in between (Scenario A)
OtherFrames == <<<<DetA>>, <<DetB>>>>
OtherMetadata == <<[angle |-> 0], [angle |-> 90]>>

\* __init__ with the default thresholds and a minimum of 1, 2 or 3 frames
Constructed ==
    /\ iou_threshold = Rat(3, 10)
    /\ confidence_boost = Rat(15, 100)
    /\ min_frames_for_validation \in 1..3
    /\ call = "__init__"
    /\ ret = NotCalled
    /\ matched = NotCalled
    /\ first_analysis = NotCalled

NoIouCall ==
    /\ bbox1 = ListBox(0, 0, 0, 0)
    /\ bbox2 = ListBox(0, 0, 0, 0)
    /\ iou = IouNotCalled
    /\ iou_swapped = IouNotCalled

\* no filter call, no request and no call in progress
NoFilterCall ==
    /\ detection_list = <<>>
    /\ min_confidence = Rat(3, 10)
    /\ again = NotCalled

NoRequest ==
    /\ target = None
    /\ threads = <<>>
    /\ request = None

(***************************************************************************)
(* Spec: an analyzer as constructed, a caller-owned Frame Detection Set,   *)
(* and one of the analyzer's public methods called on it.                  *)
(***************************************************************************)
Init ==
    /\ Constructed
    /\ frame_detections \in FrameSetsOver(DetectionPool)
    /\ NoIouCall
    /\ NoFilterCall
    /\ NoRequest

\* analyzer.analyze_frames(frame_detections)
AnalyzeFrames ==
    /\ call = "__init__"
    /\ call' = "analyze_frames"
    /\ matched' = match_detections_across_frames(frame_detections)
    /\ ret' = analysis_of(frame_detections, None, matched')
    /\ frame_detections' = frame_detections_after(frame_detections)
    /\ UNCHANGED <<config_vars, first_analysis, iou_vars,
                 filter_vars, request_vars>>

\* analyzer.match_detections_across_frames(frame_detections)
MatchDetections ==
    /\ call = "__init__"
    /\ call' = "match_detections_across_frames"
    /\ matched' = match_detections_across_frames(frame_detections)
    /\ ret' = matched'
    /\ frame_detections' = frame_detections_after(frame_detections)
    /\ UNCHANGED <<config_vars, first_analysis, iou_vars,
                 filter_vars, request_vars>>

\* analyzer.handle_partial_occlusions(frame_detections)
HandlePartialOcclusions ==
    /\ call = "__init__"
    /\ call' = "handle_partial_occlusions"
    /\ matched' = match_detections_across_frames(frame_detections)
    /\ ret' = occlusion_handled(matched')
    /\ frame_detections' = frame_detections_after(frame_detections)
    /\ UNCHANGED <<config_vars, first_analysis, iou_vars,
                 filter_vars, request_vars>>

Next ==
    \/ AnalyzeFrames
    \/ MatchDetections
    \/ HandlePartialOcclusions

Spec == Init /\ [][Next]_vars

(***************************************************************************)
(* SpecRerun: analyze_frames run again and again on the caller's Frame     *)
(* Detection Set by one analyzer instance, with analyze_frames calls on    *)
(* another Frame Detection Set in between.                                 *)
(***************************************************************************)
\* analyzer.analyze_frames(frame_detections), its first outcome remembered
RunAnalyzeFrames ==
    /\ call' = IF first_analysis.exc = "not_called"
               THEN "analyze_frames" ELSE "analyze_frames(again)"
    /\ matched' = match_detections_across_frames(frame_detections)
    /\ ret' = analysis_of(frame_detections, None, matched')
    /\ first_analysis' =
          IF first_analysis.exc = "not_called" THEN ret' ELSE first_analysis
    /\ frame_detections' = frame_detections_after(frame_detections)
    /\ UNCHANGED <<config_vars, iou_vars,
                 filter_vars, request_vars>>

\* analyzer.analyze_frames(other, metadata) on another Frame Detection Set
AnalyzeOtherFrames ==
    /\ first_analysis.exc # "not_called"
    /\ call' = "analyze_frames(other)"
    /\ matched' = match_detections_across_frames(OtherFrames)
    /\ ret' = analysis_of(OtherFrames, Some(OtherMetadata), matched')
    /\ UNCHANGED <<config_vars, frame_detections, first_analysis, iou_vars,
                 filter_vars, request_vars>>

NextRerun == RunAnalyzeFrames \/ AnalyzeOtherFrames

SpecRerun == Init /\ [][NextRerun]_vars

(***************************************************************************)
(* SpecIou: calculate_iou applied to every pair of boxes on the grid, in   *)
(* both argument orders.                                                   *)
(***************************************************************************)
Coords == 0..MaxCoord

\* every box on the grid in both shapes, corners in any order
AllBoxes ==
    {ListBox(a, b, c, d) : a \in Coords, b \in Coords, c \in Coords, d \in Coords}
    \cup
    {DictBox(a, b, c, d) : a \in Coords, b \in Coords, c \in Coords, d \in Coords}

InitIou ==
    /\ Constructed
    /\ min_frames_for_validation = 2
    /\ frame_detections = <<>>
    /\ bbox1 \in AllBoxes
    /\ bbox2 \in AllBoxes
    /\ iou = IouNotCalled
    /\ iou_swapped = IouNotCalled
    /\ NoFilterCall
    /\ NoRequest

\* analyzer.calculate_iou(bbox1, bbox2) and analyzer.calculate_iou(bbox2, bbox1)
CalculateIou ==
    /\ iou.exc = "not_called"
    /\ iou' = calculate_iou(bbox1, bbox2)
    /\ iou_swapped' = calculate_iou(bbox2, bbox1)
    /\ UNCHANGED <<bbox1, bbox2>>
    /\ UNCHANGED <<analyzer_vars, filter_vars, request_vars>>

NextIou == CalculateIou

SpecIou == InitIou /\ [][NextIou]_vars

(***************************************************************************)
(* Geometry the claims speak of, stated apart from calculate_iou.          *)
(***************************************************************************)
X1(b) == unpack_bbox(b)[1]
Y1(b) == unpack_bbox(b)[2]
X2(b) == unpack_bbox(b)[3]
Y2(b) == unpack_bbox(b)[4]

WellFormed(b) == X1(b) <= X2(b) /\ Y1(b) <= Y2(b)
PositiveArea(b) == X1(b) < X2(b) /\ Y1(b) < Y2(b)
SameRectangle(a, b) == unpack_bbox(a) = unpack_bbox(b)

OverlapWidth(a, b) == Min(X2(a), X2(b)) - Max(X1(a), X1(b))
OverlapHeight(a, b) == Min(Y2(a), Y2(b)) - Max(Y1(a), Y1(b))
BoxArea(b) == (X2(b) - X1(b)) * (Y2(b) - Y1(b))
UnionArea(a, b) == BoxArea(a) + BoxArea(b) - OverlapWidth(a, b) * OverlapHeight(a, b)

IouCalled == iou.exc # "not_called"

(***************************************************************************)
(* Claims about the geometry kernel (checked under SpecIou).               *)
(***************************************************************************)

\* C5 as stated: for every well-formed box b, boxes of zero width or zero
\* height included, calculate_iou(b, b) returns 1.0.
C5_IdenticalBoxesGiveOne ==
    (IouCalled /\ WellFormed(bbox1) /\ SameRectangle(bbox1, bbox2))
        => iou = Return(One)

\* C5 as amended: for every well-formed box b, calculate_iou(b, b) returns
\* 1.0 when b has positive width and height, and 0.0 when its area is zero.
C5_IdenticalBoxesGiveOneUnlessEmpty ==
    (IouCalled /\ WellFormed(bbox1) /\ SameRectangle(bbox1, bbox2))
        => iou = Return(IF PositiveArea(bbox1) THEN One ELSE Zero)

C5_Witness ==
    /\ IouCalled
    /\ SameRectangle(bbox1, bbox2)
    /\ PositiveArea(bbox1)
    /\ bbox1.kind # bbox2.kind
    /\ iou = Return(One)

\* C6: calculate_iou returns exactly 0.0 whenever the intersection has
\* non-positive width or non-positive height, and returns 0.0 instead of
\* raising whenever the union area is 0.
C6_NoOverlapGivesZero ==
    IouCalled =>
        /\ (OverlapWidth(bbox1, bbox2) <= 0 \/ OverlapHeight(bbox1, bbox2) <= 0)
              => iou = Return(Zero)
        /\ UnionArea(bbox1, bbox2) = 0 => iou = Return(Zero)

C6_Witness ==
    /\ IouCalled
    /\ PositiveArea(bbox1)
    /\ PositiveArea(bbox2)
    /\ OverlapWidth(bbox1, bbox2) = 0
    /\ OverlapHeight(bbox1, bbox2) > 0
    /\ iou = Return(Zero)

\* C7: calculate_iou(a, b) = calculate_iou(b, a) for all boxes a and b in
\* either representation.
C7_IouSymmetric == IouCalled => iou = iou_swapped

C7_Witness ==
    /\ IouCalled
    /\ bbox1.kind = "list"
    /\ bbox2.kind = "dict"
    /\ BoxArea(bbox1) # BoxArea(bbox2)
    /\ iou.exc = "none"
    /\ RLt(Zero, iou.val)
    /\ iou_swapped = iou

\* C8: for every pair of well-formed boxes calculate_iou returns a value in
\* the closed interval [0, 1].
C8_IouInUnitInterval ==
    (IouCalled /\ WellFormed(bbox1) /\ WellFormed(bbox2))
        => /\ iou.exc = "none"
           /\ RLeq(Zero, iou.val)
           /\ RLeq(iou.val, One)

C8_Witness ==
    /\ IouCalled
    /\ WellFormed(bbox1)
    /\ WellFormed(bbox2)
    /\ RLt(Zero, iou.val)
    /\ RLt(iou.val, One)
    /\ BoxArea(bbox1) < UnionArea(bbox1, bbox2)
    /\ BoxArea(bbox2) < UnionArea(bbox1, bbox2)

(***************************************************************************)
(* Claims about one call (checked under Spec).                             *)
(***************************************************************************)
Degraded ==
    frame_detections # <<>> /\ Len(frame_detections) < min_frames_for_validation

Validated == ret.val.validated_detections
Statistics == ret.val.statistics

\* the detections of all frames, counted frame by frame
CountBefore ==
    Cardinality({fk \in (1..Len(frame_detections)) \X (1..MaxDetections + 1) :
                    fk[2] <= Len(frame_detections[fk[1]])})

\* C1: with at least one frame and fewer frames than
\* min_frames_for_validation, match_detections_across_frames and
\* analyze_frames return exactly the first frame's detections, unchanged and
\* in order, statistics.num_frames is the number of frames supplied, and
\* false_positive_reduction_rate is computed without a division by zero.
C1_DegradedReturnsFirstFrame ==
    Degraded =>
        /\ call = "match_detections_across_frames"
              => ret = Return(frame_detections[1])
        /\ call = "analyze_frames"
              => /\ ret.exc = "none"
                 /\ Validated = frame_detections[1]
                 /\ Statistics.num_frames = Len(frame_detections)
                 /\ Statistics.false_positive_reduction_rate =
                       IF CountBefore = 0 THEN Zero
                       ELSE Rat(CountBefore - Len(frame_detections[1]),
                                CountBefore)

C1_Witness ==
    /\ Degraded
    /\ call = "analyze_frames"
    /\ Len(frame_detections) = 2
    /\ frame_detections[1] = <<>>
    /\ frame_detections[2] # <<>>
    /\ ret.exc = "none"
    /\ Validated = <<>>
    /\ Statistics.num_frames = 2
    /\ Statistics.false_positive_reduction_rate = One

\* C2 as stated: handle_partial_occlusions returns the same list as
\* match_detections_across_frames for every Frame Detection Set when
\* min_frames_for_validation = 2; the two differ only when it is 1.
C2_OcclusionsEqualMatchUnlessMinOne ==
    call = "handle_partial_occlusions" =>
        /\ ret.exc = "none"
        /\ ret.val # matched.val => min_frames_for_validation = 1

\* C2 as amended: with min_frames_for_validation = 2 the two lists are equal
\* for every Frame Detection Set of two or more frames and for the empty
\* one; for a single frame handle_partial_occlusions returns [] while
\* match_detections_across_frames returns that frame's detections.  The two
\* differ only when min_frames_for_validation = 1 or in degraded mode with
\* a non-empty first frame.
C2_OcclusionsEqualMatchOutsideDegradedMode ==
    call = "handle_partial_occlusions" =>
        /\ ret.exc = "none"
        /\ (min_frames_for_validation = 2 /\ Len(frame_detections) # 1)
              => ret.val = matched.val
        /\ (min_frames_for_validation = 2 /\ Len(frame_detections) = 1)
              => (ret.val = <<>> /\ matched.val = frame_detections[1])
        /\ ret.val # matched.val
              => \/ min_frames_for_validation = 1
                 \/ (Degraded /\ frame_detections[1] # <<>>)

C2_Witness ==
    /\ call = "handle_partial_occlusions"
    /\ min_frames_for_validation = 2
    /\ Len(frame_detections) >= 2
    /\ ret.val # <<>>
    /\ ret.val = matched.val

\* the confidences of a validated detection's cluster are confidences of
\* detections of its class in the frames it names
FromItsFrames(v) ==
    \A k \in 1..v.validation.num_frames :
        \E d \in 1..Len(frame_detections[v.validation.frame_indices[k] + 1]) :
            LET det == frame_detections[v.validation.frame_indices[k] + 1][d]
            IN  /\ det.class_name = v.class_name
                /\ det.confidence = v.validation.individual_confidences[k]

MeanOf(xs) == Rat(RSum(xs).n, RSum(xs).d * Len(xs))

\* C3: outside degraded mode every validated detection has confidence
\* min(1.0, mean(member confidences) + confidence_boost) and
\* original_confidence equal to the unboosted mean, so its confidence never
\* exceeds 1.0.
C3_ConfidenceBoostedAndClamped ==
    (call # "__init__" /\ ~degraded_mode(frame_detections)) =>
        /\ matched.exc = "none"
        /\ \A i \in 1..Len(matched.val) :
              LET v == matched.val[i]
                  mean == MeanOf(v.validation.individual_confidences)
              IN  /\ FromItsFrames(v)
                  /\ v.original_confidence = mean
                  /\ v.confidence =
                        IF RLt(RAdd(mean, confidence_boost), One)
                        THEN RAdd(mean, confidence_boost) ELSE One
                  /\ RLeq(v.confidence, One)

C3_Witness ==
    /\ call = "match_detections_across_frames"
    /\ ~degraded_mode(frame_detections)
    /\ \E i \in 1..Len(ret.val) :
          /\ ret.val[i].original_confidence = One
          /\ ret.val[i].confidence = One
    /\ \E i \in 1..Len(ret.val) :
          /\ RLt(ret.val[i].confidence, One)
          /\ ret.val[i].confidence =
                RAdd(ret.val[i].original_confidence, confidence_boost)

\* C9: in the result of analyze_frames total_detections_before is the sum of
\* the lengths of the per-frame lists, total_detections_after is the length
\* of validated_detections, and false_positive_reduction_rate is
\* (before - after) / before when before > 0 and 0.0 when before = 0, never
\* raising on a zero denominator.
C9_StatisticsCounts ==
    call = "analyze_frames" =>
        /\ ret.exc = "none"
        /\ Statistics.total_detections_before = CountBefore
        /\ Statistics.total_detections_after = Len(Validated)
        /\ CountBefore = 0 => Statistics.false_positive_reduction_rate = Zero
        /\ CountBefore > 0 =>
              Statistics.false_positive_reduction_rate.n * CountBefore =
                 (CountBefore - Len(Validated))
                    * Statistics.false_positive_reduction_rate.d

C9_Witness ==
    /\ call = "analyze_frames"
    /\ ~degraded_mode(frame_detections)
    /\ Statistics.total_detections_before = 3
    /\ Statistics.total_detections_after = 1
    /\ Statistics.false_positive_reduction_rate = Rat(2, 3)

\* C10: analyze_frames([]) raises nothing and returns no validated
\* detections, num_frames = 0, both totals 0, a reduction rate of 0.0, an
\* empty detections_by_class and avg_confidence = 0.0.
C10_EmptyInput ==
    (call = "analyze_frames" /\ frame_detections = <<>>) =>
        /\ ret.exc = "none"
        /\ Validated = <<>>
        /\ Statistics.num_frames = 0
        /\ Statistics.total_detections_before = 0
        /\ Statistics.total_detections_after = 0
        /\ Statistics.false_positive_reduction_rate = Zero
        /\ DOMAIN Statistics.detections_by_class = {}
        /\ Statistics.avg_confidence = Zero

C10_Witness ==
    /\ call = "analyze_frames"
    /\ frame_detections = <<>>
    /\ ret.exc = "none"
    /\ Validated = <<>>
    /\ Statistics.avg_confidence = Zero

(***************************************************************************)
(* Claims about repeated calls (checked under SpecRerun).                  *)
(***************************************************************************)

RECURSIVE ClustersOf(_, _)
ClustersOf(groups, k) ==
    IF k > Len(groups) THEN <<>>
    ELSE _cluster_detections(groups[k].detections).val
         \o ClustersOf(groups, k + 1)

AllClusters == ClustersOf(class_groups(frame_detections), 1)

Qualifies(cluster) == Len(cluster) >= min_frames_for_validation

NormalMode == call # "__init__" /\ ~degraded_mode(frame_detections)

\* validated detection v is the aggregate of cluster c
AggregateOf(v, c) ==
    /\ v.class_name = c[1].class_name
    /\ v.validation.num_frames = Len(c)
    /\ v.validation.frame_indices = [k \in 1..Len(c) |-> c[k].frame_idx]
    /\ v.validation.individual_confidences =
          [k \in 1..Len(c) |-> c[k].confidence]

OnePerCluster(validated, qualifying) ==
    /\ Len(validated) = Len(qualifying)
    /\ \A i \in 1..Len(qualifying) : AggregateOf(validated[i], qualifying[i])

\* C11: outside degraded mode validated_detections holds exactly one
\* validated detection for each cluster of size >= min_frames_for_validation,
\* in cluster order, and none for a smaller cluster; so every validated
\* detection has validation.num_frames >= min_frames_for_validation.
C11_OnePerQualifyingCluster ==
    NormalMode =>
        /\ matched.exc = "none"
        /\ OnePerCluster(matched.val, SelectSeq(AllClusters, Qualifies))
        /\ \A i \in 1..Len(matched.val) :
              matched.val[i].validation.num_frames >= min_frames_for_validation

C11_Witness ==
    /\ NormalMode
    /\ call = "match_detections_across_frames"
    /\ min_frames_for_validation = 2
    /\ Len(AllClusters) = 2
    /\ Len(ret.val) = 1
    /\ ret.val[1].validation.num_frames = 2


\* the positions <<frame, index>> of the caller's detections of class c
PositionsOf(c) ==
    {p \in (1..Len(frame_detections)) \X (1..MaxDetections + 1) :
        /\ p[2] <= Len(frame_detections[p[1]])
        /\ frame_detections[p[1]][p[2]].class_name = c}

DetectionAt(p) == frame_detections[p[1]][p[2]]

InputClasses ==
    {frame_detections[p[1]][p[2]].class_name :
        p \in {q \in (1..Len(frame_detections)) \X (1..MaxDetections + 1) :
                  q[2] <= Len(frame_detections[q[1]])}}

Overlapping(a, b) ==
    RLeq(iou_threshold, calculate_iou(a.bbox, b.bbox).val)

\* no two detections of class c from different frames overlap enough
NoCrossFrameOverlap(c) ==
    \A p \in PositionsOf(c) : \A q \in PositionsOf(c) :
        p[1] # q[1] => ~Overlapping(DetectionAt(p), DetectionAt(q))

NoneOfClass(validated, c) ==
    \A i \in 1..Len(validated) : validated[i].class_name # c

\* what C12 says of the result of analyze_frames
NothingValidatedWithoutOverlap ==
    /\ ret.exc = "none"
    /\ Statistics.total_detections_before = CountBefore
    /\ \A c \in InputClasses :
          NoCrossFrameOverlap(c) => NoneOfClass(Validated, c)
    /\ ((\A c \in InputClasses : NoCrossFrameOverlap(c)) /\ CountBefore > 0)
          => Statistics.false_positive_reduction_rate = One

\* C12 as stated: if no two detections of a class from different frames have
\* IoU >= iou_threshold, analyze_frames yields no validated detection of that
\* class while counting all of them in total_detections_before; when that
\* holds for every class and before > 0 the reduction rate is 1.0.
C12_NoOverlapNoValidation ==
    call = "analyze_frames" => NothingValidatedWithoutOverlap

\* C12 as amended: the same, for an analyzer with
\* min_frames_for_validation >= 2 given at least that many frames.
C12_NoOverlapNoValidationInNormalMode ==
    (call = "analyze_frames" /\ min_frames_for_validation >= 2
        /\ Len(frame_detections) >= min_frames_for_validation)
        => NothingValidatedWithoutOverlap

C12_Witness ==
    /\ call = "analyze_frames"
    /\ min_frames_for_validation = 2
    /\ Len(frame_detections) = 2
    /\ InputClasses = {"pothole"}
    /\ NoCrossFrameOverlap("pothole")
    /\ Statistics.total_detections_before = 2
    /\ Validated = <<>>
    /\ Statistics.false_positive_reduction_rate = One


\* the frames (1-based) that hold a detection of class c
FramesWith(c) == {p[1] : p \in PositionsOf(c)}

\* class c has at most one detection per frame and all of them overlap
\* pairwise
OnePerFrameAllOverlapping(c) ==
    /\ \A p \in PositionsOf(c) : \A q \in PositionsOf(c) :
          p # q => (p[1] # q[1] /\ Overlapping(DetectionAt(p), DetectionAt(q)))
    /\ Cardinality(FramesWith(c)) >= min_frames_for_validation

IndicesOfClass(validated, c) ==
    {i \in 1..Len(validated) : validated[i].class_name = c}

\* C13: if k >= min_frames_for_validation frames hold exactly one detection
\* of a class each (the other frames none) and those k detections have
\* pairwise IoU >= iou_threshold, analyze_frames yields exactly one validated
\* detection of the class, with validation.num_frames = k and
\* validation.frame_indices naming each of the k frames exactly once.
C13_MatchingDetectionsFuseIntoOne ==
    call = "analyze_frames" =>
        \A c \in InputClasses :
            OnePerFrameAllOverlapping(c) =>
                /\ ret.exc = "none"
                /\ Cardinality(IndicesOfClass(Validated, c)) = 1
                /\ \A i \in IndicesOfClass(Validated, c) :
                      /\ Validated[i].validation.num_frames
                            = Cardinality(FramesWith(c))
                      /\ Len(Validated[i].validation.frame_indices)
                            = Cardinality(FramesWith(c))
                      /\ {Validated[i].validation.frame_indices[k] :
                             k \in 1..Len(Validated[i].validation.frame_indices)}
                            = {f - 1 : f \in FramesWith(c)}

C13_Witness ==
    /\ call = "analyze_frames"
    /\ frame_detections = <<<<DetG>>, <<DetG>>, <<DetG>>>>
    /\ Len(Validated) = 1
    /\ Validated[1].class_name = "graffiti"
    /\ Validated[1].validation.num_frames = 3
    /\ Validated[1].validation.frame_indices = <<0, 1, 2>>


(***************************************************************************)
(* Claims about the statistics record (checked under Spec).                *)
(***************************************************************************)
CountOfClass(validated, c) == Cardinality(IndicesOfClass(validated, c))

RECURSIVE SumOver(_, _)
SumOver(counts, keys) ==
    IF keys = {} THEN 0
    ELSE LET c == CHOOSE x \in keys : TRUE
         IN  counts[c] + SumOver(counts, keys \ {c})

\* C17: in every result of analyze_frames detections_by_class maps each
\* class_name of validated_detections, and no other, to the number of
\* validated detections of that class, so its values sum to
\* total_detections_after and none is 0; avg_confidence is the arithmetic
\* mean of the validated detections' confidences, or 0.0 when there are none.
C17_ClassCountsAndMeanConfidence ==
    call = "analyze_frames" =>
        /\ ret.exc = "none"
        /\ DOMAIN Statistics.detections_by_class =
              {Validated[i].class_name : i \in 1..Len(Validated)}
        /\ \A c \in DOMAIN Statistics.detections_by_class :
              /\ Statistics.detections_by_class[c] = CountOfClass(Validated, c)
              /\ Statistics.detections_by_class[c] > 0
        /\ SumOver(Statistics.detections_by_class,
                   DOMAIN Statistics.detections_by_class)
              = Statistics.total_detections_after
        /\ Statistics.avg_confidence =
              IF Validated = <<>> THEN Zero
              ELSE MeanOf([i \in 1..Len(Validated) |-> Validated[i].confidence])

C17_Witness ==
    /\ call = "analyze_frames"
    /\ NormalMode
    /\ Len(Validated) = 2
    /\ Statistics.detections_by_class = [pothole |-> 2]
    /\ RLt(Statistics.avg_confidence, One)
    /\ RLt(Zero, Statistics.avg_confidence)


(***************************************************************************)
(* Claims about the caller's input (checked under Spec).                   *)
(***************************************************************************)
\* C16: analyze_frames, match_detections_across_frames and
\* handle_partial_occlusions leave the caller's Frame Detection Set as it
\* was: the same detections in the same order in every frame, every record
\* with the same keys and values, no frame_idx added.
C16_InputUnchanged ==
    [][frame_detections' = frame_detections]_vars

C16_Witness ==
    /\ call = "handle_partial_occlusions"
    /\ NormalMode
    /\ ret.exc = "none"
    /\ \E i \in 1..Len(ret.val) : ret.val[i].validation.frame_indices = <<0, 1>>
    /\ \A p \in (1..Len(frame_detections)) \X (1..MaxDetections + 1) :
          p[2] <= Len(frame_detections[p[1]])
             => ~HasKey(frame_detections[p[1]][p[2]], "frame_idx")


(***************************************************************************)
(* SpecFilter: filter_low_confidence called on a list of raw and validated *)
(* detections, then on its own result.                                     *)
(***************************************************************************)
\* the validated detection Scenario A yields
FusedAB ==
    _aggregate_cluster(<<DictWith(DetA, "frame_idx", 0),
                         DictWith(DetB, "frame_idx", 1)>>).val

FilterPool == DetectionPool \cup {FusedAB}

Thresholds == {Zero, Rat(3, 10), Rat(1, 2), Rat(9, 10), One}

InitFilter ==
    /\ Constructed
    /\ min_frames_for_validation = 2
    /\ frame_detections = <<>>
    /\ NoIouCall
    /\ NoRequest
    /\ detection_list \in
          UNION {[1..t -> FilterPool] : t \in 0..MaxDetections}
    /\ min_confidence \in Thresholds
    /\ again = NotCalled

\* analyzer.filter_low_confidence(detection_list, min_confidence)
FilterLowConfidence ==
    /\ call = "__init__"
    /\ call' = "filter_low_confidence"
    /\ ret' = filter_outcome(detection_list, min_confidence).result
    /\ detection_list' =
          filter_outcome(detection_list, min_confidence).detections
    /\ UNCHANGED <<config_vars, frame_detections, matched, first_analysis,
                   min_confidence, again, iou_vars, request_vars>>

\* analyzer.filter_low_confidence(result, min_confidence) on the list the
\* call before returned
FilterAgain ==
    /\ call = "filter_low_confidence"
    /\ ret.exc = "none"
    /\ call' = "filter_low_confidence(again)"
    /\ again' = filter_low_confidence(ret.val, min_confidence)
    /\ UNCHANGED <<config_vars, frame_detections, matched, first_analysis,
                   ret, detection_list, min_confidence, iou_vars,
                   request_vars>>

NextFilter == FilterLowConfidence \/ FilterAgain

SpecFilter == InitFilter /\ [][NextFilter]_vars

\* positions of detection_list whose confidence reaches min_confidence
KeptPositions ==
    {k \in 1..Len(detection_list) :
        RLeq(min_confidence, detection_list[k].confidence)}

\* the i-th smallest of a set of positions
NthOf(positions, i) ==
    CHOOSE k \in positions : Cardinality({j \in positions : j < k}) = i - 1

FilterCalled == call \in {"filter_low_confidence", "filter_low_confidence(again)"}

KeepsExactlyTheConfident ==
    FilterCalled =>
        /\ ret.exc = "none"
        /\ Len(ret.val) = Cardinality(KeptPositions)
        /\ \A i \in 1..Len(ret.val) :
              ret.val[i] = detection_list[NthOf(KeptPositions, i)]

FilterIdempotent ==
    call = "filter_low_confidence(again)" => again = ret

\* C18: filter_low_confidence returns exactly the detections with
\* confidence >= min_confidence (one at the threshold is kept) in their
\* original order, leaves the list passed in and its records unchanged, and
\* applied to its own result with the same threshold returns it again.
C18_FilterKeepsConfident ==
    [][/\ detection_list' = detection_list
       /\ KeepsExactlyTheConfident'
       /\ FilterIdempotent']_vars

C18_Witness ==
    /\ call = "filter_low_confidence(again)"
    /\ Len(detection_list) = 3
    /\ Len(ret.val) = 2
    /\ again = ret
    /\ \E i \in 1..2 : ret.val[i].confidence = min_confidence
    /\ \E i \in 1..2 : HasKey(ret.val[i], "validation")
    /\ ~RLeq(min_confidence, detection_list[2].confidence)


(***************************************************************************)
(* SpecCluster: _cluster_detections called on the detections of one class  *)
(* as match_detections_across_frames hands them over.                      *)
(***************************************************************************)
\* C overlaps B (IoU 49/151) but not A (IoU 36/164)
DetC == Pothole(Rat(4, 5), ListBox(4, 4, 14, 14))

ClusterPool == {DetA, DetB, DetC, DetD}

InitCluster ==
    /\ Constructed
    /\ min_frames_for_validation = 2
    /\ frame_detections \in FrameSetsOver(ClusterPool)
    /\ detection_list = with_frame_idx(frame_detections, 1)
    /\ min_confidence = Rat(3, 10)
    /\ again = NotCalled
    /\ NoIouCall
    /\ NoRequest

\* self._cluster_detections(detection_list)
ClusterDetections ==
    /\ call = "__init__"
    /\ call' = "_cluster_detections"
    /\ ret' = _cluster_detections(detection_list)
    /\ UNCHANGED <<config_vars, frame_detections, matched, first_analysis,
                   filter_vars, iou_vars, request_vars>>

NextCluster == ClusterDetections

SpecCluster == InitCluster /\ [][NextCluster]_vars

\* the positions a seed gathers: itself and every position not assigned
\* before, of another frame, whose box overlaps the seed's
GatheredBy(seed, assigned) ==
    {seed} \cup
    {j \in 1..Len(detection_list) :
        /\ j \notin assigned
        /\ j # seed
        /\ detection_list[j].frame_idx # detection_list[seed].frame_idx
        /\ Overlapping(detection_list[seed], detection_list[j])}

\* the detections at a set of positions, the seed first, then by position
AsCluster(seed, positions) ==
    <<detection_list[seed]>> \o
    [i \in 1..(Cardinality(positions) - 1) |->
        detection_list[NthOf(positions \ {seed}, i)]]

RECURSIVE SeedClusters(_)
SeedClusters(assigned) ==
    IF assigned = 1..Len(detection_list) THEN <<>>
    ELSE LET seed == CHOOSE s \in (1..Len(detection_list)) \ assigned :
                        \A t \in (1..Len(detection_list)) \ assigned : s <= t
         IN  <<AsCluster(seed, GatheredBy(seed, assigned))>>
             \o SeedClusters(assigned \cup GatheredBy(seed, assigned))

\* C20: every cluster _cluster_detections returns is its seed, the
\* lowest-indexed detection not assigned before, followed by exactly the
\* detections that were unassigned when the seed was opened, are of another
\* frame than the seed and have IoU >= iou_threshold against the seed; none
\* is admitted for its overlap with another member, none that meets the
\* three conditions is left out.
C20_SeedRelativeClusters ==
    call = "_cluster_detections" => ret = Return(SeedClusters({}))

C20_Witness ==
    /\ call = "_cluster_detections"
    /\ frame_detections = <<<<DetA>>, <<DetB>>, <<DetC>>>>
    /\ Overlapping(DetB, DetC)
    /\ ~Overlapping(DetA, DetC)
    /\ Len(ret.val) = 2
    /\ Len(ret.val[1]) = 2
    /\ ret.val[2] = <<DictWith(DetC, "frame_idx", 2)>>


(***************************************************************************)
(* SpecMalformed: the analyzer's methods called on Frame Detection Sets    *)
(* in which some detections lack a key.                                    *)
(***************************************************************************)
DetNoClassName ==
    [class_id |-> 0, confidence |-> Rat(9, 10), bbox |-> ListBox(0, 0, 10, 10)]
DetNoConfidence ==
    [class_id |-> 0, class_name |-> "pothole", bbox |-> ListBox(0, 0, 10, 10)]
DetNoBbox ==
    [class_id |-> 0, class_name |-> "pothole", confidence |-> Rat(9, 10)]

MalformedPool == {DetA, DetB, DetNoClassName, DetNoConfidence, DetNoBbox}

InitMalformed ==
    /\ Constructed
    /\ frame_detections \in FrameSetsOver(MalformedPool)
    /\ NoIouCall
    /\ NoFilterCall
    /\ NoRequest

SpecMalformed == InitMalformed /\ [][Next]_vars

WellFormedDetection(det) ==
    HasKey(det, "class_name") /\ HasKey(det, "confidence") /\ HasKey(det, "bbox")

\* the Frame Detection Set without its malformed detections, frames kept
WellFormedPart(fd) ==
    [f \in 1..Len(fd) |-> SelectSeq(fd[f], WellFormedDetection)]

\* C14: a malformed detection (no class_name, no confidence or no bbox)
\* does not abort analyze_frames: the call returns, and what it returns is
\* the analysis of the well-formed detections of all frames, in degraded
\* mode and outside it.
C14_MalformedDetectionSkipped ==
    call = "analyze_frames" =>
        /\ ret.exc = "none"
        /\ ret = analyze_frames(WellFormedPart(frame_detections), None)


(***************************************************************************)
(* SpecValidate: the /validate route (backend/app/routes/multiframe) on    *)
(* the shared analyzer get_analyzer() creates with the default thresholds. *)
(***************************************************************************)
\* target_detection.get('class_name'): None when the key is missing
target_class_name(target_detection) ==
    IF HasKey(target_detection.value, "class_name")
    THEN Some(target_detection.value.class_name) ELSE None

\* line 226: det['class_name'] == target_detection.get('class_name'), never
\* true of None
is_class(det, class_name) ==
    ~class_name.is_none /\ det.class_name = class_name.value

\* lines 225-229: the position of the first validated detection of the
\* target's class, 0 when the loop ends without a break
first_of_class(validated_detections, class_name) ==
    IF \E i \in 1..Len(validated_detections) :
          is_class(validated_detections[i], class_name)
    THEN CHOOSE i \in 1..Len(validated_detections) :
            /\ is_class(validated_detections[i], class_name)
            /\ \A j \in 1..(i - 1) :
                  ~is_class(validated_detections[j], class_name)
    ELSE 0

\* lines 231-236, hit being the position the loop stopped at
validate_body(validated_detections, hit) ==
    [success |-> TRUE,
     validated |-> hit # 0,
     num_matching_frames |->
        IF hit = 0 THEN 0 ELSE validation_num_frames(validated_detections[hit]),
     all_validated_detections |-> validated_detections]

\* lines 221-236, results being the outcome of line 219
validate_response(results, target_detection) ==
    IF results.exc # "none"
    THEN [status |-> 500, body |-> [error |-> results.exc]]
    ELSE [status |-> 200,
          body |-> validate_body(
             results.val.validated_detections,
             IF target_detection.is_none \/ DOMAIN target_detection.value = {}
             THEN 0
             ELSE first_of_class(results.val.validated_detections,
                                 target_class_name(target_detection)))]

validate_detection(fd, target_detection) ==
    validate_response(analyze_frames(fd, None), target_detection)

Targets ==
    {None,
     Some([class_name |-> "pothole"]),
     Some([class_name |-> "graffiti"]),
     Some([class_name |-> "crack"]),
     Some([confidence |-> One])}

InitValidate ==
    /\ Constructed
    /\ min_frames_for_validation = 2
    /\ frame_detections \in FrameSetsOver(DetectionPool)
    /\ target \in Targets
    /\ threads = <<>>
    /\ request = None
    /\ NoIouCall
    /\ NoFilterCall

\* POST /api/multiframe/validate with frame_detections and target
ValidateDetection ==
    /\ call = "__init__"
    /\ call' = "validate_detection"
    /\ matched' = match_detections_across_frames(frame_detections)
    /\ ret' = Return(validate_response(analysis_of(frame_detections, None, matched'),
                                       target))
    /\ frame_detections' = frame_detections_after(frame_detections)
    /\ UNCHANGED <<config_vars, first_analysis, iou_vars, filter_vars,
                   request_vars>>

NextValidate == ValidateDetection

SpecValidate == InitValidate /\ [][NextValidate]_vars

\* the validated detections whose class_name is the target's
MatchesTarget ==
    IF target.is_none \/ ~HasKey(target.value, "class_name") THEN {}
    ELSE IndicesOfClass(matched.val, target.value.class_name)

FirstMatch == CHOOSE i \in MatchesTarget : \A j \in MatchesTarget : i <= j

\* validated detection v was produced by a cluster of n detections
ProducedByClusterOfSize(v, n) ==
    /\ HasKey(v, "validation")
    /\ \E k \in 1..Len(AllClusters) :
          Len(AllClusters[k]) = n /\ AggregateOf(v, AllClusters[k])

\* C19: the validate operation reports validated = true exactly when some
\* detection of the validated set has the target's class_name, and then
\* num_matching_frames is the size of the cluster that produced the first
\* such detection; otherwise validated = false and num_matching_frames = 0.
\* This for every Frame Detection Set, one of a single frame included.
C19_ValidateReportsClusterSize ==
    call = "validate_detection" =>
        /\ ret.val.status = 200
        /\ ret.val.body.validated = (MatchesTarget # {})
        /\ MatchesTarget = {} => ret.val.body.num_matching_frames = 0
        /\ MatchesTarget # {} =>
              ProducedByClusterOfSize(matched.val[FirstMatch],
                                      ret.val.body.num_matching_frames)


(***************************************************************************)
(* SpecConcurrent: two analyze_frames calls in progress on the one         *)
(* analyzer get_analyzer() hands out, their steps interleaved.  A call's   *)
(* locals are fields of its entry in threads; self holds the thresholds    *)
(* only.  A call's steps: the degraded-mode guard (line 124), one frame of *)
(* the partition loop (130-138), one class of the validation loop          *)
(* (142-148), the statistics (260-284).                                    *)
(***************************************************************************)
Threads == {1, 2}

\* the locals of a call that has just been entered
entered(fd) ==
    [pc |-> "guard",
     frame_detections |-> fd,
     class_groups |-> <<>>,
     frame |-> 1,
     group |-> 1,
     validated_detections |-> <<>>,
     result |-> NotCalled]

\* the detections of class_groups, class after class
RECURSIVE flattened(_, _)
flattened(groups, k) ==
    IF k > Len(groups) THEN <<>>
    ELSE groups[k].detections \o flattened(groups, k + 1)

\* lines 124-128
guard_step(th) ==
    IF degraded_mode(th.frame_detections)
    THEN [th EXCEPT !.pc = "statistics",
                    !.validated_detections =
                        first_frame_or_empty(th.frame_detections).val]
    ELSE [th EXCEPT !.pc = "partition", !.class_groups = <<>>]

\* lines 130-138 for frame th.frame, groups being the class_groups the call
\* sees
partition_step(th, groups) ==
    IF th.frame > Len(th.frame_detections)
    THEN [th EXCEPT !.pc = "validate", !.validated_detections = <<>>]
    ELSE [th EXCEPT
            !.class_groups =
                class_groups_of(
                    flattened(groups, 1) \o
                    [k \in 1..Len(th.frame_detections[th.frame]) |->
                        tag_detection(th.frame_detections[th.frame][k],
                                      th.frame - 1).det_with_frame]),
            !.frame = th.frame + 1]

\* lines 142-148 for class th.group, groups being the class_groups the call
\* sees
validate_step(th, groups) ==
    IF th.group > Len(groups)
    THEN [th EXCEPT !.pc = "statistics"]
    ELSE [th EXCEPT
            !.validated_detections =
                th.validated_detections \o
                validate_clusters(
                    _cluster_detections(groups[th.group].detections)).val,
            !.group = th.group + 1]

\* lines 260-284
statistics_step(th) ==
    [th EXCEPT !.pc = "done",
               !.result = analysis_of(th.frame_detections, None,
                                      Return(th.validated_detections))]

\* class_groups kept on self by the call entered first
groups_seen_on_self(t) == threads[1].class_groups

\* class_groups as call t sees it: its own local (line 128)
groups_seen(t) == threads[t].class_groups

\* the Frame Detection Sets with one detection in every frame
OnePerFrame(frame_sets) ==
    {fs \in frame_sets : \A f \in 1..Len(fs) : Len(fs[f]) = 1}

\* the thresholds get_analyzer() constructs the shared analyzer with
DefaultThresholds ==
    /\ iou_threshold = Rat(3, 10)
    /\ confidence_boost = Rat(15, 100)
    /\ min_frames_for_validation = 2

InitConcurrent ==
    /\ Constructed
    /\ DefaultThresholds
    /\ frame_detections \in OnePerFrame(FrameSetsOver(DetectionPool))
    /\ threads = <<entered(frame_detections), entered(OtherFrames)>>
    /\ target = None
    /\ request = None
    /\ NoIouCall
    /\ NoFilterCall

Guard(t) ==
    /\ threads[t].pc = "guard"
    /\ threads' = [threads EXCEPT ![t] = guard_step(threads[t])]
    /\ UNCHANGED <<analyzer_vars, iou_vars, filter_vars, target, request>>

Partition(t) ==
    /\ threads[t].pc = "partition"
    /\ threads' = [threads EXCEPT
                      ![t] = partition_step(threads[t], groups_seen(t))]
    /\ UNCHANGED <<analyzer_vars, iou_vars, filter_vars, target, request>>

Validate(t) ==
    /\ threads[t].pc = "validate"
    /\ threads' = [threads EXCEPT
                      ![t] = validate_step(threads[t], groups_seen(t))]
    /\ UNCHANGED <<analyzer_vars, iou_vars, filter_vars, target, request>>

ComposeStatistics(t) ==
    /\ threads[t].pc = "statistics"
    /\ threads' = [threads EXCEPT ![t] = statistics_step(threads[t])]
    /\ UNCHANGED <<analyzer_vars, iou_vars, filter_vars, target, request>>

NextConcurrent ==
    \E t \in Threads :
        \/ Guard(t)
        \/ Partition(t)
        \/ Validate(t)
        \/ ComposeStatistics(t)

SpecConcurrent == InitConcurrent /\ [][NextConcurrent]_vars

\* every call that has returned returned what it returns run alone
ReturnsAsAlone ==
    \A t \in DOMAIN threads :
        threads[t].pc = "done" =>
            threads[t].result = analyze_frames(threads[t].frame_detections, None)

\* C15: analyze_frames calls interleaved on one analyzer each return what
\* they return run alone, since no step reads or writes the working data
\* of another call, and the thresholds stay as constructed whatever steps
\* have been taken.
C15_InterleavedCallsIndependent ==
    threads # <<>> => (ReturnsAsAlone /\ DefaultThresholds)

C15_Witness ==
    /\ threads # <<>>
    /\ threads[1].pc = "validate"
    /\ threads[1].group = 2
    /\ threads[1].validated_detections # <<>>
    /\ threads[2].pc = "done"
    /\ threads[2].result.exc = "none"
    /\ Len(threads[2].result.val.validated_detections) = 1
    /\ threads[1].frame_detections # threads[2].frame_detections


(***************************************************************************)
(* SpecTwoFrames: analyze_frames called on two frames, each holding up to  *)
(* MaxPerFrame detections, so that a frame can hold several detections     *)
(* that overlap a detection of the other frame.                            *)
(***************************************************************************)
\* every detection list of at most MaxPerFrame detections taken from pool
FrameListsOver(pool) == UNION {[1..n -> pool] : n \in 0..MaxPerFrame}

TwoFramesOver(pool) ==
    {<<first, later>> : first \in FrameListsOver(pool),
                        later \in FrameListsOver(pool)}

InitTwoFrames ==
    /\ Constructed
    /\ frame_detections \in TwoFramesOver({DetA, DetB, DetD})
    /\ NoIouCall
    /\ NoFilterCall
    /\ NoRequest

NextTwoFrames == AnalyzeFrames

SpecTwoFrames == InitTwoFrames /\ [][NextTwoFrames]_vars

\* how many entries of a list satisfy a test
CountWhere(list, Test(_)) == Cardinality({k \in 1..Len(list) : Test(list[k])})

\* detection d is of the seed's class, of frame f, and overlaps the seed
CandidateOf(seed, f, d) ==
    /\ d.class_name = seed.class_name
    /\ d.frame_idx = f
    /\ Overlapping(seed, d)

\* the detections of frame f that overlap the seed of cluster m
Candidates(m, f) ==
    CountWhere(with_frame_idx(frame_detections, 1),
               LAMBDA d : CandidateOf(AllClusters[m][1], f, d))

\* those of them that an earlier cluster holds
TakenBefore(m, f) ==
    Sum([n \in 1..(m - 1) |->
            CountWhere(AllClusters[n],
                       LAMBDA d : CandidateOf(AllClusters[m][1], f, d))])

\* the members of cluster m that come from frame f
MembersFrom(m, f) == CountWhere(AllClusters[m], LAMBDA d : d.frame_idx = f)

LaterFrames(m) ==
    {f \in 0..(Len(frame_detections) - 1) : f > AllClusters[m][1].frame_idx}

\* the validated detections of cluster m (one if it qualifies, else none)
ValidatedOf(m) ==
    IF Qualifies(AllClusters[m])
    THEN {matched.val[Len(SelectSeq(SubSeq(AllClusters, 1, m), Qualifies))]}
    ELSE {}

\* cluster m holds n detections of frame f, and so does what is made of it
HoldsFromFrame(m, f, n) ==
    /\ MembersFrom(m, f) = n
    /\ \A v \in ValidatedOf(m) :
          /\ CountWhere(v.validation.frame_indices, LAMBDA x : x = f) = n
          /\ v.validation.num_frames = Len(AllClusters[m])
          /\ v.validation.num_frames > n

\* C21 as stated: whenever two (or more) detections of one later frame each
\* have IoU >= iou_threshold against the seed of a cluster, all of them are
\* members of that cluster, the validated detection's frame_indices holds
\* that frame index once for each, and num_frames counts each.
C21_SameFrameDetectionsBothAdmitted ==
    NormalMode =>
        \A m \in 1..Len(AllClusters) : \A f \in LaterFrames(m) :
            Candidates(m, f) >= 2 => HoldsFromFrame(m, f, Candidates(m, f))

\* C21 (amended): the same for the detections of one later frame that were
\* not assigned to an earlier cluster when the seed was opened.
C21_UnassignedSameFrameDetectionsBothAdmitted ==
    NormalMode =>
        \A m \in 1..Len(AllClusters) : \A f \in LaterFrames(m) :
            Candidates(m, f) - TakenBefore(m, f) >= 2 =>
                HoldsFromFrame(m, f, Candidates(m, f) - TakenBefore(m, f))

\* one detection in frame 0, two in frame 1 that both overlap it: one
\* validated detection of three members from two frames
C21_Witness ==
    /\ NormalMode
    /\ frame_detections = <<<<DetA>>, <<DetB, DetB>>>>
    /\ min_frames_for_validation = 2
    /\ Len(matched.val) = 1
    /\ matched.val[1].validation.frame_indices = <<0, 1, 1>>
    /\ matched.val[1].validation.num_frames = 3
    /\ matched.val[1].validation.num_frames > Len(frame_detections)


(***************************************************************************)
(* SpecTagged: the analyzer's methods called on Frame Detection Sets in    *)
(* which some detections already carry a frame_idx (as a client of         *)
(* /analyze-detections can send them).                                     *)
(***************************************************************************)
\* A and B carrying a frame_idx that is not the position of their frame
DetATagged == DictWith(DetA, "frame_idx", 2)
DetBTagged == DictWith(DetB, "frame_idx", 2)

TaggedPool == {DetA, DetB, DetATagged, DetBTagged}

InitTagged ==
    /\ Constructed
    /\ frame_detections \in FrameSetsOver(TaggedPool)
    /\ NoIouCall
    /\ NoFilterCall
    /\ NoRequest

SpecTagged == InitTagged /\ [][Next]_vars

\* every detection with the frame_idx it carries, or the 0-based position
\* of its frame when it carries none, in iteration order
RECURSIVE TaggedIfAbsent(_, _)
TaggedIfAbsent(fd, f) ==
    IF f > Len(fd) THEN <<>>
    ELSE [k \in 1..Len(fd[f]) |->
             IF HasKey(fd[f][k], "frame_idx") THEN fd[f][k]
             ELSE DictWith(fd[f][k], "frame_idx", f - 1)]
         \o TaggedIfAbsent(fd, f + 1)

\* C22: a frame_idx already present on an input detection is kept: outside
\* degraded mode match_detections_across_frames returns what clustering and
\* aggregation make of the detections tagged only where they carried no
\* frame_idx, so the kept frame_idx decides which detections may share a
\* cluster and appears in validation.frame_indices.
C22_PresentFrameIdxKept ==
    (call = "match_detections_across_frames" /\ NormalMode) =>
        ret = validate_groups(
                  class_groups_of(TaggedIfAbsent(frame_detections, 1)), 1)


(***************************************************************************)
(* SpecFuse: analyze_frames called on Frame Detection Sets of boxes in     *)
(* both shapes, of two classes, one box having its x corners swapped.      *)
(***************************************************************************)
\* a detection whose box has x1 > x2
DetI == Pothole(Rat(7, 10), ListBox(10, 0, 0, 10))

FusePool == {DetA, DetB, DetG, DetI}

InitFuse ==
    /\ Constructed
    /\ frame_detections \in FrameSetsOver(FusePool)
    /\ NoIouCall
    /\ NoFilterCall
    /\ NoRequest

NextFuse == AnalyzeFrames

SpecFuse == InitFuse /\ [][NextFuse]_vars

\* the clusters that qualify, in order: cluster i becomes matched.val[i]
QualifyingClusters == SelectSeq(AllClusters, Qualifies)

Fused == call # "__init__" /\ ~degraded_mode(frame_detections)
         /\ matched.exc = "none"

CornersOf(b) == <<X1(b), Y1(b), X2(b), Y2(b)>>

\* the n-th corner value of every member of cluster c
CornerValues(c, n) == [k \in 1..Len(c) |-> CornersOf(c[k].bbox)[n]]

\* v.bbox is the coordinate-wise unweighted mean over the members of c
MeanBox(v, c) ==
    \A n \in 1..4 :
        RMul(v.bbox[n], Num(Len(c))) = Num(Sum(CornerValues(c, n)))

Midpoint(v) ==
    /\ RAdd(v.bbox_center[1], v.bbox_center[1]) = RAdd(v.bbox[1], v.bbox[3])
    /\ RAdd(v.bbox_center[2], v.bbox_center[2]) = RAdd(v.bbox[2], v.bbox[4])

WidthTimesHeight(v) ==
    v.bbox_area = RMul(RSub(v.bbox[3], v.bbox[1]), RSub(v.bbox[4], v.bbox[2]))

\* C23: for every qualifying cluster each of the four coordinates of the
\* validated detection's bbox is the unweighted arithmetic mean of that
\* coordinate over all members, in whichever shape each member's box is;
\* bbox_center is the midpoint of the fused bbox and bbox_area its width
\* times its height.
C23_BoxIsCoordinatewiseMean ==
    Fused =>
        \E qualifying \in {QualifyingClusters} :
            /\ Len(matched.val) = Len(qualifying)
            /\ \A i \in 1..Len(matched.val) :
                  /\ MeanBox(matched.val[i], qualifying[i])
                  /\ Midpoint(matched.val[i])
                  /\ WidthTimesHeight(matched.val[i])

\* a list box and a dict box fused: [0,0,10,10] and {1,1,11,11}
C23_Witness ==
    /\ Fused
    /\ frame_detections = <<<<DetA>>, <<DetB>>>>
    /\ Len(matched.val) = 1
    /\ matched.val[1].bbox = <<Rat(1, 2), Rat(1, 2), Rat(21, 2), Rat(21, 2)>>
    /\ matched.val[1].bbox_center = <<Rat(11, 2), Rat(11, 2)>>
    /\ matched.val[1].bbox_area = Num(100)


\* the validation record of v is the one of cluster c
ValidationRecordOf(v, c) ==
    /\ v.validation.validated = TRUE
    /\ v.validation.confidence_boost = confidence_boost
    /\ v.validation.num_frames = Len(c)
    /\ Len(v.validation.frame_indices) = Len(c)
    /\ Len(v.validation.individual_confidences) = Len(c)
    /\ \A k \in 1..Len(c) :
          /\ v.validation.frame_indices[k] = c[k].frame_idx
          /\ v.validation.individual_confidences[k] = c[k].confidence
    /\ v.class_id = c[1].class_id
    /\ v.class_name = c[1].class_name

\* C24: every validated detection's validation record has validated = true,
\* confidence_boost equal to the analyzer's configured value, and num_frames
\* equal to the cluster size and to the lengths of frame_indices and
\* individual_confidences; the k-th entries of the two lists are the frame
\* index and the confidence of the k-th cluster member in discovery order
\* (seed first), and class_id and class_name are those of the seed.
C24_ValidationRecord ==
    Fused =>
        \E qualifying \in {QualifyingClusters} :
            /\ Len(matched.val) = Len(qualifying)
            /\ \A i \in 1..Len(matched.val) :
                  ValidationRecordOf(matched.val[i], qualifying[i])

\* a cluster of three members from two frames, the seed A first
C24_Witness ==
    /\ Fused
    /\ frame_detections = <<<<DetA>>, <<DetB, DetA>>>>
    /\ Len(matched.val) = 1
    /\ matched.val[1].validation =
          [validated |-> TRUE, num_frames |-> 3, frame_indices |-> <<0, 1, 1>>,
           confidence_boost |-> Rat(15, 100),
           individual_confidences |-> <<Rat(9, 10), One, Rat(9, 10)>>]
    /\ matched.val[1].class_id = 0


\* how often detection d, tagged with its frame, occurs in the clusters
OccurrencesInClusters(clusters, d) ==
    Sum([m \in 1..Len(clusters) |-> CountWhere(clusters[m], LAMBDA x : x = d)])

\* every detection of tagged, the input detections tagged with their
\* frames, is in the clusters as often as in the input
ClustersPartitionInput(clusters, tagged) ==
    /\ \A k \in 1..Len(tagged) :
          OccurrencesInClusters(clusters, tagged[k]) =
              CountWhere(tagged, LAMBDA x : x = tagged[k])
    /\ Sum([m \in 1..Len(clusters) |-> Len(clusters[m])]) = Len(tagged)

OneClassPerCluster(clusters) ==
    \A m \in 1..Len(clusters) : \A k \in 1..Len(clusters[m]) :
        clusters[m][k].class_name = clusters[m][1].class_name

\* C26: the clusters partition each class group: every detection of a class
\* is in exactly one cluster, no cluster mixes class names, no detection
\* contributes to two validated detections, and the sum of
\* validation.num_frames over the validated detections is at most
\* total_detections_before.
C26_ClustersPartitionClassGroups ==
    Fused =>
        /\ \E clusters \in {AllClusters} :
              /\ ClustersPartitionInput(
                    clusters, with_frame_idx(frame_detections, 1))
              /\ OneClassPerCluster(clusters)
              /\ \E qualifying \in {SelectSeq(clusters, Qualifies)} :
                    /\ Len(matched.val) = Len(qualifying)
                    /\ \A i \in 1..Len(matched.val) :
                          matched.val[i].validation.num_frames
                              = Len(qualifying[i])
        /\ Sum([i \in 1..Len(matched.val) |->
                   matched.val[i].validation.num_frames])
              <= Statistics.total_detections_before

\* a pothole and a graffiti with the same box in frame 0 and a pothole that
\* overlaps both boxes in frame 1: one cluster per class
C26_Witness ==
    /\ Fused
    /\ frame_detections = <<<<DetA, DetG>>, <<DetB>>>>
    /\ min_frames_for_validation = 1
    /\ Len(AllClusters) = 2
    /\ Len(matched.val) = 2
    /\ matched.val[1].validation.num_frames = 2
    /\ matched.val[2].class_name = "graffiti"
    /\ Statistics.total_detections_before = 3


(***************************************************************************)
(* SpecAnyConfig: analyze_frames called by analyzers constructed with      *)
(* other thresholds than the defaults, a minimum of 0 frames included.     *)
(***************************************************************************)
\* MultiFrameAnalyzer(iou_threshold, confidence_boost, min_frames_for_validation)
InitAnyConfig ==
    /\ iou_threshold \in {Zero, Rat(3, 10), One}
    /\ confidence_boost = Rat(15, 100)
    /\ min_frames_for_validation \in 0..3
    /\ call = "__init__"
    /\ ret = NotCalled
    /\ matched = NotCalled
    /\ first_analysis = NotCalled
    /\ frame_detections \in FrameSetsOver({DetA, DetB, DetD})
    /\ NoIouCall
    /\ NoFilterCall
    /\ NoRequest

NextAnyConfig == AnalyzeFrames

SpecAnyConfig == InitAnyConfig /\ [][NextAnyConfig]_vars

\* C27: for every Frame Detection Set and every configuration, in normal
\* and in degraded mode alike, analyze_frames returns statistics with
\* total_detections_after <= total_detections_before and
\* false_positive_reduction_rate in [0, 1].
C27_AfterAtMostBefore ==
    call = "analyze_frames" =>
        /\ ret.exc = "none"
        /\ Statistics.total_detections_after
              <= Statistics.total_detections_before
        /\ RLeq(Zero, Statistics.false_positive_reduction_rate)
        /\ RLeq(Statistics.false_positive_reduction_rate, One)

\* a threshold of 0 and a minimum of 0: two disjoint boxes of two frames
\* are fused into one validated detection
C27_Witness ==
    /\ call = "analyze_frames"
    /\ iou_threshold = Zero
    /\ min_frames_for_validation = 0
    /\ frame_detections = <<<<DetA>>, <<DetD>>>>
    /\ Statistics.total_detections_before = 2
    /\ Statistics.total_detections_after = 1
    /\ Statistics.false_positive_reduction_rate = Rat(1, 2)


\* a list of frame indices in non-decreasing order, the first the smallest
\* and met only once
SeedFirstAscending(indices) ==
    /\ \A k \in 1..(Len(indices) - 1) : indices[k] <= indices[k + 1]
    /\ \A k \in 2..Len(indices) : indices[1] < indices[k]

\* C28: in every validated detection produced by clustering,
\* validation.frame_indices is in non-decreasing order and its first entry
\* (the seed's frame) is strictly smaller than every other entry; so a
\* validated detection with num_frames >= 2 spans at least two distinct
\* frames, and no cluster holds a detection of a frame earlier than its
\* seed's.
C28_FrameIndicesAscendFromSeed ==
    Fused =>
        /\ \A i \in 1..Len(matched.val) :
              /\ SeedFirstAscending(matched.val[i].validation.frame_indices)
              /\ matched.val[i].validation.num_frames >= 2 =>
                    Cardinality({matched.val[i].validation.frame_indices[k] :
                        k \in 1..Len(matched.val[i].validation.frame_indices)})
                      >= 2
        /\ \E clusters \in {AllClusters} :
              \A m \in 1..Len(clusters) : \A k \in 2..Len(clusters[m]) :
                  clusters[m][1].frame_idx < clusters[m][k].frame_idx

\* the detection of the first frame overlaps nothing and stays alone; the
\* seed of the validated detection is in the middle frame
C28_Witness ==
    /\ Fused
    /\ frame_detections = <<<<DetI>>, <<DetA>>, <<DetB>>>>
    /\ min_frames_for_validation = 2
    /\ Len(matched.val) = 1
    /\ matched.val[1].validation.frame_indices = <<1, 2>>


AllWellFormed(c) == \A k \in 1..Len(c) : WellFormed(c[k].bbox)

\* the n-th fused coordinate lies between the least and the greatest n-th
\* coordinate of the members of c
WithinMembers(v, c) ==
    \A n \in 1..4 :
        /\ \E k \in 1..Len(c) : RLeq(Num(CornersOf(c[k].bbox)[n]), v.bbox[n])
        /\ \E k \in 1..Len(c) : RLeq(v.bbox[n], Num(CornersOf(c[k].bbox)[n]))

\* C29: if every member box of a cluster is well-formed (x1 <= x2 and
\* y1 <= y2), the fused bbox of the validated detection is well-formed too,
\* its bbox_area is non-negative, and each fused coordinate lies between the
\* minimum and the maximum of that coordinate over the members.
C29_FusedBoxWellFormed ==
    Fused =>
        \E qualifying \in {QualifyingClusters} :
            /\ Len(matched.val) = Len(qualifying)
            /\ \A i \in 1..Len(matched.val) :
                  AllWellFormed(qualifying[i]) =>
                      /\ RLeq(matched.val[i].bbox[1], matched.val[i].bbox[3])
                      /\ RLeq(matched.val[i].bbox[2], matched.val[i].bbox[4])
                      /\ RLeq(Zero, matched.val[i].bbox_area)
                      /\ WithinMembers(matched.val[i], qualifying[i])

\* two well-formed boxes fused, and beside them a box with x1 > x2 that
\* qualifies alone and keeps its negative area
C29_Witness ==
    /\ Fused
    /\ frame_detections = <<<<DetA, DetI>>, <<DetB>>>>
    /\ min_frames_for_validation = 1
    /\ Len(matched.val) = 2
    /\ AllWellFormed(QualifyingClusters[1])
    /\ matched.val[1].bbox = <<Rat(1, 2), Rat(1, 2), Rat(21, 2), Rat(21, 2)>>
    /\ matched.val[1].bbox_area = Num(100)
    /\ ~AllWellFormed(QualifyingClusters[2])
    /\ matched.val[2].bbox_area = Num(-100)


(***************************************************************************)
(* SpecRoutes: the routes /analyze, /analyze-detections and /analyze-video *)
(* of backend/app/routes/multiframe, each serving one request.  A request  *)
(* carries no location, so the tagger is not called.  An image is known by *)
(* the position of its file or frame in the request; a detection list      *)
(* carries the position of the file or frame the detector made it from.    *)
(***************************************************************************)
\* jsonify(body), status
response(status, body) == [status |-> status, body |-> body]

error_response(status, error) == response(status, [error |-> error])

\* what a route leaves: its response, the frame_detections it built or
\* read, and the outcome of the analyzer's matching (NotCalled when the
\* route returned before line 112, 177 or 325)
route_outcome(resp, fd, m) ==
    [response |-> resp, frame_detections |-> fd, matched |-> m]

\* lines 96-107: the positions of the files that are processed (named, and
\* detect_from_bytes returns)
processed(files) ==
    SelectSeq([k \in 1..Len(files) |-> k],
              LAMBDA k : files[k].filename # ""
                         /\ files[k].detected.exc = "none")

\* lines 310-320: the positions of the frames detect_from_bytes returns for
processed_frames(frames) ==
    SelectSeq([k \in 1..Len(frames) |-> k],
              LAMBDA k : frames[k].detected.exc = "none")

\* frame_detections as the loop builds it
detections_of(files, kept) ==
    [i \in 1..Len(kept) |-> files[kept[i]].detected.val]

\* lines 118-124 and 331-337: zip(images, frame_detections), each pair
\* passed to annotate_image; images and kept are positions in the request
annotated_images(files, images, kept) ==
    [i \in 1..Min(Len(images), Len(kept)) |->
        [image |-> images[i],
         detections |-> files[kept[i]].detected.val,
         detected_from |-> kept[i]]]

\* lines 126-131 and 339-344, results being the outcome of analyze_frames
success_response(results, annotated) ==
    IF results.exc # "none" THEN error_response(500, results.exc)
    ELSE response(200,
            [success |-> TRUE,
             validated_detections |-> results.val.validated_detections,
             annotated_images |-> annotated,
             statistics |-> results.val.statistics,
             frame_metadata |-> results.val.frame_metadata])

\* lines 112-131 and 325-344, m being the outcome of the matching
analyzed(fd, annotated, m) ==
    route_outcome(success_response(analysis_of(fd, None, m), annotated), fd, m)

\* lines 109-131 and 322-344
analyze_processed(fd, annotated) ==
    IF fd = <<>>
    THEN route_outcome(error_response(400, "No valid frames processed"),
                       fd, NotCalled)
    ELSE analyzed(fd, annotated, match_detections_across_frames(fd))

\* lines 93-131, kept being the files the loop of lines 96-107 processes:
\* frame_images and frame_detections grow together
analyze_files(files, kept) ==
    analyze_processed(detections_of(files, kept),
                      annotated_images(files, kept, kept))

\* POST /api/multiframe/analyze
analyze_route(req) ==
    IF req.files.is_none
    THEN route_outcome(error_response(400, "No files provided"),
                       <<>>, NotCalled)
    ELSE IF Len(req.files.value) < 2
    THEN route_outcome(
            error_response(400,
                "At least 2 frames required for multi-frame analysis"),
            <<>>, NotCalled)
    ELSE analyze_files(req.files.value, processed(req.files.value))

\* lines 309-344, kept being the frames the loop of lines 310-320
\* processes: the images zipped are all the extracted frames
analyze_extracted(frames, kept) ==
    analyze_processed(detections_of(frames, kept),
                      annotated_images(frames,
                                       [k \in 1..Len(frames) |-> k], kept))

\* POST /api/multiframe/analyze-video
analyze_video(req) ==
    IF req.video.is_none
    THEN route_outcome(error_response(400, "No video file provided"),
                       <<>>, NotCalled)
    ELSE IF req.video.value.filename = ""
    THEN route_outcome(error_response(400, "Empty video filename"),
                       <<>>, NotCalled)
    ELSE IF req.video.value.frames.exc # "none"
    THEN route_outcome(error_response(500, req.video.value.frames.exc),
                       <<>>, NotCalled)
    ELSE IF Len(req.video.value.frames.val) < 2
    THEN route_outcome(
            error_response(400,
                "Could not extract enough frames from video (minimum 2 required)"),
            <<>>, NotCalled)
    ELSE analyze_extracted(req.video.value.frames.val,
                           processed_frames(req.video.value.frames.val))

\* line 170: data.get('frame_metadata')
json_frame_metadata(data) ==
    IF HasKey(data, "frame_metadata") THEN Some(data.frame_metadata) ELSE None

\* lines 179-182, results being the outcome of analyze_frames
results_response(results) ==
    IF results.exc # "none" THEN error_response(500, results.exc)
    ELSE response(200,
            [success |-> TRUE,
             validated_detections |-> results.val.validated_detections,
             statistics |-> results.val.statistics,
             frame_metadata |-> results.val.frame_metadata])

\* lines 177-182, m being the outcome of the matching
answered(fd, frame_metadata, m) ==
    route_outcome(results_response(analysis_of(fd, frame_metadata, m)), fd, m)

\* POST /api/multiframe/analyze-detections
analyze_detections(req) ==
    IF req.json.is_none
    THEN route_outcome(error_response(400, "No frame_detections provided"),
                       <<>>, NotCalled)
    ELSE IF ~HasKey(req.json.value, "frame_detections")
    THEN route_outcome(error_response(400, "No frame_detections provided"),
                       <<>>, NotCalled)
    ELSE IF Len(req.json.value.frame_detections) < 2
    THEN route_outcome(
            error_response(400,
                "At least 2 frames required for multi-frame analysis"),
            req.json.value.frame_detections, NotCalled)
    ELSE answered(req.json.value.frame_detections,
                  json_frame_metadata(req.json.value),
                  match_detections_across_frames(
                      req.json.value.frame_detections))


\* what detect_from_bytes does with a file or a frame: it raises, or it
\* returns the detections of the image
DetectorOutcomes ==
    {Raise("ValueError", <<>>), Return(<<>>), Return(<<DetB>>),
     Return(<<DetB, DetG>>)}

\* an uploaded file: one without a name, or a named one
UploadsOf(outcomes) ==
    {[filename |-> "", detected |-> Return(<<>>)]}
    \cup {[filename |-> "frame.jpg", detected |-> d] : d \in outcomes}

ListsOfUpTo(items, n) == UNION {[1..k -> items] : k \in 0..n}

\* requests to /analyze: no files part, or up to MaxFrames files, with the
\* form's min_frames_for_validation
AnalyzeRequests(outcomes) ==
    {[route |-> "/analyze", files |-> f, min_frames_for_validation |-> n] :
        f \in {None} \cup
              {Some(l) : l \in ListsOfUpTo(UploadsOf(outcomes), MaxFrames)},
        n \in 1..3}

\* requests to /analyze-video: no video part, a video without a name, one
\* that cannot be opened, or one of up to MaxFrames extracted frames
VideoRequests(outcomes) ==
    {[route |-> "/analyze-video", video |-> v] :
        v \in {None,
               Some([filename |-> "", frames |-> Return(<<>>)]),
               Some([filename |-> "clip.mp4",
                     frames |-> Raise("ValueError", <<>>)])}
              \cup
              {Some([filename |-> "clip.mp4", frames |-> Return(l)]) :
                  l \in ListsOfUpTo({[detected |-> d] : d \in outcomes},
                                    MaxFrames)}}

\* requests to /analyze-detections: no JSON body, one without
\* frame_detections, or one with a Frame Detection Set
DetectionsRequests(pool) ==
    {[route |-> "/analyze-detections", json |-> j] :
        j \in {None, Some([frame_metadata |-> OtherMetadata])}
              \cup {Some([frame_detections |-> fd]) : fd \in FrameSetsOver(pool)}
              \cup {Some([frame_detections |-> OtherFrames,
                          frame_metadata |-> OtherMetadata])}}

\* the analyzer that serves the request: /analyze constructs one with the
\* form's min_frames_for_validation (line 90), the other routes take
\* get_analyzer()'s, constructed with the defaults
InitRoutes ==
    /\ request \in AnalyzeRequests(DetectorOutcomes)
                   \cup VideoRequests(DetectorOutcomes)
                   \cup DetectionsRequests({DetA, DetB})
    /\ iou_threshold = Rat(3, 10)
    /\ confidence_boost = Rat(15, 100)
    /\ min_frames_for_validation =
          IF request.route = "/analyze"
          THEN request.min_frames_for_validation ELSE 2
    /\ call = "__init__"
    /\ ret = NotCalled
    /\ matched = NotCalled
    /\ first_analysis = NotCalled
    /\ frame_detections = <<>>
    /\ NoIouCall
    /\ NoFilterCall
    /\ target = None
    /\ threads = <<>>

AnalyzeRoute ==
    /\ call = "__init__"
    /\ request.route = "/analyze"
    /\ call' = "/analyze"
    /\ \E served \in {analyze_route(request)} :
          /\ ret' = Return(served.response)
          /\ frame_detections' = served.frame_detections
          /\ matched' = served.matched
    /\ UNCHANGED <<config_vars, first_analysis, iou_vars, filter_vars,
                   request_vars>>

AnalyzeDetectionsRoute ==
    /\ call = "__init__"
    /\ request.route = "/analyze-detections"
    /\ call' = "/analyze-detections"
    /\ \E served \in {analyze_detections(request)} :
          /\ ret' = Return(served.response)
          /\ frame_detections' = served.frame_detections
          /\ matched' = served.matched
    /\ UNCHANGED <<config_vars, first_analysis, iou_vars, filter_vars,
                   request_vars>>

AnalyzeVideoRoute ==
    /\ call = "__init__"
    /\ request.route = "/analyze-video"
    /\ call' = "/analyze-video"
    /\ \E served \in {analyze_video(request)} :
          /\ ret' = Return(served.response)
          /\ frame_detections' = served.frame_detections
          /\ matched' = served.matched
    /\ UNCHANGED <<config_vars, first_analysis, iou_vars, filter_vars,
                   request_vars>>

NextRoutes ==
    \/ AnalyzeRoute
    \/ AnalyzeDetectionsRoute
    \/ AnalyzeVideoRoute

SpecRoutes == InitRoutes /\ [][NextRoutes]_vars

RouteServed == call \in {"/analyze", "/analyze-detections", "/analyze-video"}

AnsweredWithSuccess == RouteServed /\ ret.val.status = 200

\* the frames of the request that can be used: the named files and the
\* extracted frames for which detection returns, the posted detection lists
UsableFrames ==
    IF request.route = "/analyze"
    THEN IF request.files.is_none THEN 0
         ELSE Len(processed(request.files.value))
    ELSE IF request.route = "/analyze-video"
    THEN IF request.video.is_none THEN 0
         ELSE IF request.video.value.frames.exc # "none" THEN 0
         ELSE Len(processed_frames(request.video.value.frames.val))
    ELSE IF request.json.is_none THEN 0
         ELSE IF ~HasKey(request.json.value, "frame_detections") THEN 0
         ELSE Len(request.json.value.frame_detections)

\* C25: whenever /analyze, /analyze-detections or /analyze-video answers
\* with success, the analyzer was run on at least 2 per-frame detection
\* lists; a request that ends up with fewer than 2 usable frames (files
\* with empty names and frames that fail detection being skipped) is
\* answered with an error.
C25_SuccessRunsOnTwoFrames ==
    RouteServed =>
        /\ AnsweredWithSuccess =>
              /\ matched.exc # "not_called"
              /\ Len(frame_detections) >= 2
        /\ UsableFrames < 2 => ret.val.status # 200

\* C30: in /analyze and /analyze-video every annotated image is drawn with
\* the detections computed from that same frame: in a success response the
\* i-th image passed to annotate_image and the detection list paired with
\* it come from the same file or frame, whichever frames were skipped.
C30_AnnotatedWithOwnDetections ==
    (AnsweredWithSuccess /\ call \in {"/analyze", "/analyze-video"}) =>
        \A i \in 1..Len(ret.val.body.annotated_images) :
            ret.val.body.annotated_images[i].image =
                ret.val.body.annotated_images[i].detected_from

=============================================================================
